---- MODULE Spec2Model ----
(***************************************************************************)
(* Capture orchestration engine of johnowhitaker/rpi.                      *)
(*                                                                         *)
(*   - CameraController (scan_api/camera.py): one camera session with its  *)
(*     RLock, the device's configuration and encoder, and the request      *)
(*     threads that run capture_jpeg_bytes, capture_file and set_controls. *)
(*   - StreamingOutput (scan_api/camera.py): the single-slot frame         *)
(*     broadcast, its condition variable and the streaming consumers.      *)
(*   - SerialManager (scan_api/serial_io.py): the link to the motion       *)
(*     controller, its lock, the write / acknowledgment-wait protocol.     *)
(*                                                                         *)
(* The device (Picamera2) and the transport (pyserial) are the             *)
(* environment: each call into them either succeeds or raises, and the     *)
(* controller answers a command with informational lines, an "ok", or      *)
(* nothing.                                                                *)
(***************************************************************************)
EXTENDS Integers, Sequences, FiniteSets

\* ---------------------------------------------------------------- bounds

\* Frame identities are 1..NFrames, reused in turn by successive writes; 0
\* stands for Python's None (no frame yet).
NFrames == 3
\* The count of publishes a woken consumer has missed saturates at MaxLag.
MaxLag == 2

\* A batch handed to send_commands holds 1..MaxBatch command lines.
MaxBatch == 2
\* A move-and-capture request asks for 0..MaxMoves axis moves (XY, Z).
MaxMoves == 1
\* The serial input buffer holds at most MaxRx unread lines.
MaxRx == 2

\* The clock is followed over MaxClock microseconds, and MaxCaptures
\* captures to a file are made on the session.
MaxClock == 3
MaxCaptures == 3

\* An image is 1..MaxSide pixels wide and high; the crop sizes asked for go
\* from -1 to MaxSide + 1 and the offsets from -MaxSide to MaxSide.
MaxSide == 3

\* SerialManager.disconnect is called at most MaxDisconnects times.
MaxDisconnects == 2

\* serial.Serial(..., timeout=1.0): readline gives up after one second.
ReadTimeout == 1
\* _read_until_ok(timeout=5.0): the acknowledgment wait, in seconds.
AckTimeout == 5

None == "None"

\* Request-handling threads of the HTTP layer working on the one session.
Requests == {"r1", "r2"}
\* Streaming consumers (one mjpeg_stream generator each).
Consumers == {"c1", "c2"}
\* Threads calling SerialManager.send_commands on the one link.
Callers == {"t1", "t2"}
\* The ids of CameraManager.controllers, in the order of the dict.
CamIds == <<"0", "1", "2">>
Cams == {CamIds[i] : i \in 1..Len(CamIds)}
\* Threads calling CameraManager.stop.
Stoppers == {"u1", "u2"}

VARIABLES
    \* --- CameraController / Picamera2
    config,      \* the profile the device is configured in: "preview" | "still"
    recording,   \* the encoder is running and feeds StreamingOutput
    lock,        \* owner of CameraController.lock, or None
    rpc,         \* rpc[r]: where request thread r is
    rop,         \* rop[r]: the method r is running (or ran last)
    exc,         \* exc[r]: an exception is pending while r runs a finally block
    outcome,     \* outcome[r]: how r's last call ended: "none" | "returned" | "raised"
    tmpfile,     \* tmpfile[r]: the temporary file of r's capture: "none" | "exists" | "removed"
    \* --- StreamingOutput
    frame,       \* StreamingOutput.frame: 0 (None) or a frame identity
    condition,   \* owner of StreamingOutput.condition's lock, or None
    cpc,         \* cpc[c]: where consumer c is
    stale,       \* stale[c]: c is in a call and no write has happened since it began
    wokenBy,     \* wokenBy[c]: identity of the frame whose notify_all woke c
    lag,         \* lag[c]: writes since the one that woke c (saturating)
    got,         \* got[c]: the frame c read after wait()
    gotStale,    \* gotStale[c]: stale[c] at the moment c read the frame
    gotLag,      \* gotLag[c]: lag[c] at the moment c read the frame
    \* --- SerialManager and the motion controller
    ser,         \* SerialManager._ser: None or "open"
    slock,       \* owner of SerialManager._lock, or None
    spc,         \* spc[t]: where caller t is
    sbatch,      \* sbatch[t]: the call's arguments: [n: commands, wait_ok]
    sidx,        \* sidx[t]: index of the command the for loop is at
    sres,        \* sres[t]: how t's call ended
    discarded,   \* discarded[t]: the current wait has ignored an informational line
    wire,        \* what happened on the transport: writes, acknowledgments, timeouts
    tx,          \* commands the controller has received and not answered yet
    rx,          \* lines in the serial input buffer, oldest first
    elapsed,     \* time.time() - start of the running _read_until_ok (0 outside)
    rwait,       \* seconds the running readline has been blocked (0 outside)
    \* --- scan_api/app.py: STATE and the move-and-capture requests
    serial_lock, \* owner of STATE.serial_lock, or None
    stateSerial, \* STATE.serial: None or "sm" (the SerialManager stored)
    mpc,         \* mpc[r]: where request r is in macro_move_and_capture
    margs,       \* margs[r]: the request's arguments
    \* --- the transports (serial.Serial objects) of the process
    leaked,      \* transports still open that no SerialManager in use refers to
    dcalls,      \* what each call of SerialManager.disconnect so far found in _ser
    \* --- one call of printer_move and one of crop_from_center, as functions
    pm,          \* the request of printer_move: x, y, z, safe, wait
    cmds,        \* the cmds list printer_move hands to send_commands (<<>> before)
    crop,        \* the arguments of crop_from_center: the image's size w, h and
                 \* cw, ch, ox, oy; huge: the arguments beyond the range of a float
    cropped,     \* the result of crop_from_center
    \* --- capture_file / capture_still: the clock and the files written
    now,         \* datetime.now(), in microseconds
    ts,          \* ts[r]: the timestamp request r read
    fpc,         \* fpc[r]: where request r is in capture_file
    written,     \* the paths captures were written to, in order
    \* --- one call of CameraController.set_controls(ctrl), as a function
    variant,     \* whose set_controls: "scan_api" | "camera_view"
    libcamera,   \* `from libcamera import controls` succeeded
    ctrl,        \* the argument: a value, or none, for each enum-valued key
    m,           \* the mapping built for self.picam2.set_controls
    ctlpc,       \* "input" | "returned" (m empty) | "sent" (the device got m)
    \* --- camera_view/camera_manager.py and triple_cam/app.py: the sessions
    \* of the CameraManager, one triple_snap request, one capture request
    vlock,       \* vlock[c]: owner of session c's RLock, or None
    thr,         \* thr[c]: where the capture thread for camera c is
    captured,    \* the keys of the `captured` dict of triple_snap, in insertion order
    snappc,      \* where the triple_snap handler is
    snapi,       \* index of the for loop the handler is in (start, join)
    results,     \* the cam_id of each entry of `results` ("pi" of the response)
    xpc,         \* where the single-camera capture request is
    xcam,        \* the camera the single-camera capture request is for
    \* --- CameraManager.stop and CameraController.stop
    vrec,        \* vrec[c]: session c's encoder is recording
    vstarted,    \* vstarted[c]: session c's device is started
    stpc,        \* stpc[u]: where the thread u calling CameraManager.stop is
    sti,         \* sti[u]: index of the controller u's for loop is at
    tried,       \* tried[u]: the device calls u's running CameraManager.stop made
    stopCalls,   \* stopCalls[c]: "none", or how the calls of CameraController.stop that
                 \* returned for c went: "clean" once both device calls of one succeeded
    clean        \* clean[u]: stop_recording of u's running CameraController.stop succeeded

camVars == <<config, recording, lock, rpc, rop, exc, outcome, tmpfile>>
outVars == <<frame, condition, cpc, stale, wokenBy, lag, got, gotStale, gotLag>>
serVars == <<ser, slock, spc, sbatch, sidx, sres, discarded, wire, tx, rx, elapsed, rwait>>
macroVars == <<serial_lock, stateSerial, mpc, margs>>
linkVars == <<leaked, dcalls>>
fnVars == <<pm, cmds, crop, cropped>>
fileVars == <<now, ts, fpc, written>>
ctlVars == <<variant, libcamera, ctrl, m, ctlpc>>
snapVars == <<thr, captured, snappc, snapi, results, xpc, xcam>>
stopVars == <<vrec, vstarted, stpc, sti, tried, stopCalls, clean>>
viewVars == <<vlock, snapVars, stopVars>>
appVars == <<macroVars, ctlVars, viewVars, linkVars, fnVars, fileVars>>
vars == <<camVars, outVars, serVars, appVars>>

\* ------------------------------------------------- Picamera2 (the device)
\* Each call either succeeds (ok) or raises; a call that raises leaves the
\* device as it was.

stop_recording(ok) ==
    /\ recording' = IF ok THEN FALSE ELSE recording
    /\ UNCHANGED config

switch_mode(cfg, ok) ==
    /\ config' = IF ok THEN cfg ELSE config
    /\ UNCHANGED recording

start_recording(ok) ==
    /\ recording' = IF ok THEN TRUE ELSE recording
    /\ UNCHANGED config

\* ------------------------------------------------------ CameraController

\* `with self.lock:` is entered only when no other thread owns the RLock (no
\* method re-enters it).
LockFreeBroken(r) == TRUE
LockFree(r) == lock = None

\* Leaving the `with self.lock:` block, by return or by exception (the
\* call's tmp_path goes out of scope).
Leave(r, how) ==
    /\ lock' = None
    /\ rpc' = [rpc EXCEPT ![r] = "idle"]
    /\ outcome' = [outcome EXCEPT ![r] = how]
    /\ exc' = [exc EXCEPT ![r] = FALSE]
    /\ tmpfile' = [tmpfile EXCEPT ![r] = IF @ = "removed" THEN "none" ELSE @]
    /\ UNCHANGED rop

Goto(r, where) ==
    /\ rpc' = [rpc EXCEPT ![r] = where]
    /\ UNCHANGED <<lock, rop, outcome>>

\* A request thread calls capture_jpeg_bytes or capture_file.
CallCapture(r, o) ==
    /\ rpc[r] = "idle"
    /\ o \in {"capture_jpeg_bytes", "capture_file"}
    /\ rop' = [rop EXCEPT ![r] = o]
    /\ rpc' = [rpc EXCEPT ![r] = "lock"]
    /\ outcome' = [outcome EXCEPT ![r] = "none"]
    /\ UNCHANGED <<config, recording, lock, exc, tmpfile, outVars, serVars, appVars>>

\* set_controls(ctrl): the translated mapping m is empty (return without
\* touching the lock or the device) or not.
set_controls(r, empty) ==
    /\ rpc[r] = "idle"
    /\ rop' = [rop EXCEPT ![r] = "set_controls"]
    /\ rpc' = [rpc EXCEPT ![r] = IF empty THEN "idle" ELSE "lock"]
    /\ outcome' = [outcome EXCEPT ![r] = IF empty THEN "returned" ELSE "none"]
    /\ UNCHANGED <<config, recording, lock, exc, tmpfile, outVars, serVars, appVars>>

\* `with self.lock:` of the three methods.
Acquire(r) ==
    /\ rpc[r] = "lock"
    /\ LockFree(r)
    /\ lock' = r
    /\ rpc' = [rpc EXCEPT ![r] = IF rop[r] = "set_controls" THEN "ctl" ELSE "stop"]
    /\ UNCHANGED <<config, recording, rop, exc, outcome, tmpfile, outVars, serVars, appVars>>

\* self.picam2.set_controls(m) under the lock; a rejected control raises.
DeviceSetControls(r, ok) ==
    /\ rpc[r] = "ctl"
    /\ Leave(r, IF ok THEN "returned" ELSE "raised")
    /\ UNCHANGED <<config, recording, outVars, serVars, appVars>>

\* try: self.picam2.stop_recording() except Exception: pass
StopRecording(r, ok) ==
    /\ rpc[r] = "stop"
    /\ stop_recording(ok)
    /\ Goto(r, "still")
    /\ UNCHANGED <<exc, tmpfile, outVars, serVars, appVars>>

\* self.picam2.switch_mode(self.still_config): outside any try block.
SwitchStill(r, ok) ==
    /\ rpc[r] = "still"
    /\ switch_mode("still", ok)
    /\ IF ok THEN Goto(r, "cap") /\ UNCHANGED <<exc, tmpfile>>
             ELSE Leave(r, "raised")
    /\ UNCHANGED <<outVars, serVars, appVars>>

\* The capture step. capture_jpeg_bytes: the in-memory capture_file(buf),
\* whose failure leads to the temporary-file fallback. capture_file: the
\* capture to the path, whose failure propagates at once.
Capture(r, ok) ==
    /\ rpc[r] = "cap"
    /\ IF ok THEN Goto(r, "prev") /\ UNCHANGED <<exc, tmpfile>>
       ELSE IF rop[r] = "capture_jpeg_bytes"
            THEN Goto(r, "tmp") /\ UNCHANGED <<exc, tmpfile>>
            ELSE Leave(r, "raised")
    /\ UNCHANGED <<config, recording, outVars, serVars, appVars>>

\* The fallback of capture_jpeg_bytes starts with
\* tempfile.NamedTemporaryFile(suffix='.jpg', delete=False) and tmp.close():
\* the file exists from here on. If it cannot be created the exception is
\* pending while the outer finally block runs.
CreateTmp(r, ok) ==
    /\ rpc[r] = "tmp"
    /\ tmpfile' = [tmpfile EXCEPT ![r] = IF ok THEN "exists" ELSE "none"]
    /\ exc' = [exc EXCEPT ![r] = ~ok]
    /\ Goto(r, IF ok THEN "tmpcap" ELSE "prev")
    /\ UNCHANGED <<config, recording, outVars, serVars, appVars>>

\* try: capture_file(tmp_path) and the read-back of the file; a failure of
\* either is pending while the two finally blocks run.
CaptureTmp(r, ok) ==
    /\ rpc[r] = "tmpcap"
    /\ exc' = [exc EXCEPT ![r] = ~ok]
    /\ Goto(r, "unlink")
    /\ UNCHANGED <<config, recording, tmpfile, outVars, serVars, appVars>>

\* finally: try: os.unlink(tmp_path) except Exception: pass. The file was
\* created by this call in the temporary directory, so the removal of the
\* existing file goes through; UnlinkSkipped is the inner finally left out
\* (the removal only on the success path).
UnlinkSkipped(r) == IF exc[r] THEN tmpfile ELSE [tmpfile EXCEPT ![r] = "removed"]
os_unlink(r) == [tmpfile EXCEPT ![r] = "removed"]

Unlink(r) ==
    /\ rpc[r] = "unlink"
    /\ tmpfile' = os_unlink(r)
    /\ Goto(r, "prev")
    /\ UNCHANGED <<config, recording, exc, outVars, serVars, appVars>>

\* self.picam2.switch_mode(self.preview_config): first statement of the
\* finally block of capture_jpeg_bytes, plain statement of capture_file.
SwitchPreview(r, ok) ==
    /\ rpc[r] = "prev"
    /\ switch_mode("preview", ok)
    /\ IF ok THEN Goto(r, "start") /\ UNCHANGED <<exc, tmpfile>>
             ELSE Leave(r, "raised")
    /\ UNCHANGED <<outVars, serVars, appVars>>

\* try: self.picam2.start_recording(...) except Exception: pass, then the
\* end of the `with` block: the pending exception, if any, propagates.
StartRecording(r, ok) ==
    /\ rpc[r] = "start"
    /\ start_recording(ok)
    /\ Leave(r, IF exc[r] THEN "raised" ELSE "returned")
    /\ UNCHANGED <<outVars, serVars, appVars>>

\* ------------------------------------------------------- StreamingOutput

NextFrame == (frame % NFrames) + 1

\* notify_all wakes every thread waiting on the condition.
notify_allOne(c) == cpc[c] = "waiting" /\ c = CHOOSE w \in Consumers : cpc[w] = "waiting"
notify_allNobody(c) == FALSE
notify_all(c) == cpc[c] = "waiting"

\* StreamingOutput.write, called by the encoder for each frame while
\* recording: under the condition, store the frame and notify_all.
\* (writeLocked is a write that would also need the session's lock.)
writeLocked ==
    /\ lock = None
    /\ recording
    /\ condition = None
    /\ frame' = NextFrame
    /\ cpc' = [c \in Consumers |-> IF notify_all(c) THEN "notified" ELSE cpc[c]]
    /\ wokenBy' = [c \in Consumers |-> IF notify_all(c) THEN NextFrame ELSE wokenBy[c]]
    /\ lag' = [c \in Consumers |->
                 IF notify_all(c) THEN 0
                 ELSE IF cpc[c] \in {"notified", "woken"} /\ lag[c] < MaxLag
                      THEN lag[c] + 1 ELSE lag[c]]
    /\ stale' = [c \in Consumers |-> FALSE]
    /\ UNCHANGED <<condition, got, gotStale, gotLag, camVars, serVars, appVars>>
write ==
    /\ recording
    /\ condition = None
    /\ frame' = NextFrame
    /\ cpc' = [c \in Consumers |-> IF notify_all(c) THEN "notified" ELSE cpc[c]]
    /\ wokenBy' = [c \in Consumers |-> IF notify_all(c) THEN NextFrame ELSE wokenBy[c]]
    /\ lag' = [c \in Consumers |->
                 IF notify_all(c) THEN 0
                 ELSE IF cpc[c] \in {"notified", "woken"} /\ lag[c] < MaxLag
                      THEN lag[c] + 1 ELSE lag[c]]
    /\ stale' = [c \in Consumers |-> FALSE]
    /\ UNCHANGED <<condition, got, gotStale, gotLag, camVars, serVars, appVars>>

\* ---------------------------------------------- mjpeg_stream (a consumer)
\* One pass of the generator's loop is one awaitNext: `with output.condition:`,
\* `output.condition.wait()`, `frame = output.frame`. A consumer that has its
\* frame (or found it None, or is throttled by min_interval) starts the next
\* pass whenever it gets to it.

\* The call begins: the consumer reaches `with output.condition:`.
Begin(c) ==
    /\ cpc[c] \in {"idle", "got"}
    /\ cpc' = [cpc EXCEPT ![c] = "enter"]
    /\ stale' = [stale EXCEPT ![c] = TRUE]
    /\ wokenBy' = [wokenBy EXCEPT ![c] = 0]
    /\ lag' = [lag EXCEPT ![c] = 0]
    /\ got' = [got EXCEPT ![c] = 0]
    /\ gotStale' = [gotStale EXCEPT ![c] = FALSE]
    /\ gotLag' = [gotLag EXCEPT ![c] = 0]
    /\ UNCHANGED <<frame, condition, camVars, serVars, appVars>>

\* `with output.condition:` takes the condition's lock.
Enter(c) ==
    /\ cpc[c] = "enter"
    /\ condition = None
    /\ condition' = c
    /\ cpc' = [cpc EXCEPT ![c] = "locked"]
    /\ UNCHANGED <<frame, stale, wokenBy, lag, got, gotStale, gotLag, camVars, serVars, appVars>>

\* condition.wait(): release the lock and block until a notify_all.
waitBroken(c) ==
    /\ cpc[c] = "locked"
    /\ cpc' = [cpc EXCEPT ![c] = "woken"]
    /\ wokenBy' = [wokenBy EXCEPT ![c] = frame]
    /\ lag' = [lag EXCEPT ![c] = 0]
    /\ UNCHANGED <<frame, condition, stale, got, gotStale, gotLag, camVars, serVars, appVars>>
wait(c) ==
    /\ cpc[c] = "locked"
    /\ condition' = None
    /\ cpc' = [cpc EXCEPT ![c] = "waiting"]
    /\ UNCHANGED <<frame, stale, wokenBy, lag, got, gotStale, gotLag, camVars, serVars, appVars>>

\* The notified consumer takes the condition's lock again before wait()
\* returns.
Reacquire(c) ==
    /\ cpc[c] = "notified"
    /\ condition = None
    /\ condition' = c
    /\ cpc' = [cpc EXCEPT ![c] = "woken"]
    /\ UNCHANGED <<frame, stale, wokenBy, lag, got, gotStale, gotLag, camVars, serVars, appVars>>

\* frame = output.frame, and the end of the `with` block.
Read(c) ==
    /\ cpc[c] = "woken"
    /\ got' = [got EXCEPT ![c] = frame]
    /\ gotStale' = [gotStale EXCEPT ![c] = stale[c]]
    /\ gotLag' = [gotLag EXCEPT ![c] = lag[c]]
    /\ stale' = [stale EXCEPT ![c] = FALSE]
    /\ condition' = None
    /\ cpc' = [cpc EXCEPT ![c] = "got"]
    /\ UNCHANGED <<frame, wokenBy, lag, camVars, serVars, appVars>>

\* --------------------------------------------------------- SerialManager

\* Response lines, as the words of the stripped, lower-cased line. The
\* controller acknowledges with "ok" alone or at the end of a report, and
\* may send informational lines at any time.
AckTexts == {<<"ok">>, <<"x:0.00", "ok">>}
InfoText == <<"busy">>

\* low == b"ok" or low.endswith(b" ok")
IsOk(text) ==
    \/ text = <<"ok">>
    \/ Len(text) > 1 /\ text[Len(text)] = "ok"

\* `with self._lock:` is entered only when no thread owns the lock.
SerialLockFreeBroken(t) == TRUE
SerialLockFree(t) == slock = None

\* while time.time() - start < timeout: the loop ends when it is false.
TimedOutNever == FALSE
TimedOut == elapsed >= AckTimeout

Event(e, t) == [ev |-> e, by |-> t, k |-> sidx[t]]

\* The call ends, by return or by exception: `with self._lock:` releases.
\* (SLeaveHolding is an end of the call that keeps the lock.)
SLeaveHolding(t, how) ==
    /\ spc' = [spc EXCEPT ![t] = "idle"]
    /\ sres' = [sres EXCEPT ![t] = how]
    /\ UNCHANGED <<slock, sidx>>
SLeave(t, how) ==
    /\ slock' = None
    /\ spc' = [spc EXCEPT ![t] = "idle"]
    /\ sres' = [sres EXCEPT ![t] = how]
    /\ UNCHANGED sidx

\* The for loop of send_commands goes on to the next command, or ends.
\* (NextCommandReleasing gives the lock up between two commands of a batch.)
NextCommandReleasing(t) ==
    IF sidx[t] < sbatch[t].n
    THEN /\ sidx' = [sidx EXCEPT ![t] = sidx[t] + 1]
         /\ spc' = [spc EXCEPT ![t] = "write"]
         /\ slock' = None
         /\ UNCHANGED sres
    ELSE SLeave(t, "returned")
NextCommand(t) ==
    IF sidx[t] < sbatch[t].n
    THEN /\ sidx' = [sidx EXCEPT ![t] = sidx[t] + 1]
         /\ spc' = [spc EXCEPT ![t] = "write"]
         /\ UNCHANGED <<slock, sres>>
    ELSE SLeave(t, "returned")

\* raise TimeoutError(...): it leaves _read_until_ok, the for loop and the
\* `with` block of send_commands.
\* (RaiseTimeoutRetry writes the command again; RaiseTimeoutHolding ends the
\* call with the lock still owned.)
RaiseTimeoutRetry(t) ==
    /\ spc' = [spc EXCEPT ![t] = "write"]
    /\ UNCHANGED <<slock, sres, sidx>>
RaiseTimeoutHolding(t) == SLeaveHolding(t, "TimeoutError")
RaiseTimeout(t) == SLeave(t, "TimeoutError")

\* SerialManager.connect: open the transport and store it under the lock.
connect ==
    /\ ser = None
    /\ slock = None
    /\ ser' = "open"
    /\ UNCHANGED <<slock, spc, sbatch, sidx, sres, discarded, wire, tx, rx, elapsed, rwait>>
    /\ UNCHANGED <<camVars, outVars, appVars>>

\* A caller calls send_commands(commands, wait_ok) with n command lines.
send_commands(t, n, w) ==
    /\ spc[t] = "idle"
    /\ sres[t] = "none"
    /\ sbatch' = [sbatch EXCEPT ![t] = [n |-> n, wait_ok |-> w]]
    /\ sidx' = [sidx EXCEPT ![t] = 1]
    /\ spc' = [spc EXCEPT ![t] = "lock"]
    /\ UNCHANGED <<ser, slock, sres, discarded, wire, tx, rx, elapsed, rwait>>
    /\ UNCHANGED <<camVars, outVars, appVars>>

\* with self._lock:
SerialAcquire(t) ==
    /\ spc[t] = "lock"
    /\ SerialLockFree(t)
    /\ slock' = t
    /\ spc' = [spc EXCEPT ![t] = "write"]
    /\ UNCHANGED <<ser, sbatch, sidx, sres, discarded, wire, tx, rx, elapsed, rwait>>
    /\ UNCHANGED <<camVars, outVars, appVars>>

\* _write_line(cmd): not connected raises RuntimeError; else the line is
\* written and flushed, and the controller receives it. With wait_ok the
\* acknowledgment wait starts (start = time.time()).
_write_line(t) ==
    /\ spc[t] = "write"
    /\ IF ser = None
       THEN /\ SLeave(t, "RuntimeError")
            /\ UNCHANGED <<wire, tx, elapsed, discarded>>
       ELSE /\ wire' = Append(wire, Event("write", t))
            /\ tx' = Append(tx, <<t, sidx[t]>>)
            /\ IF sbatch[t].wait_ok
               THEN /\ spc' = [spc EXCEPT ![t] = "check"]
                    /\ elapsed' = 0
                    /\ discarded' = [discarded EXCEPT ![t] = FALSE]
                    /\ UNCHANGED <<slock, sres, sidx>>
               ELSE /\ NextCommand(t)
                    /\ UNCHANGED <<elapsed, discarded>>
    /\ UNCHANGED <<ser, sbatch, rx, rwait>>
    /\ UNCHANGED <<camVars, outVars, appVars>>

\* The loop condition of _read_until_ok: call readline again, or raise
\* TimeoutError.
CheckTime(t) ==
    /\ spc[t] = "check"
    /\ IF TimedOut
       THEN /\ wire' = Append(wire, Event("timeout", t))
            /\ RaiseTimeout(t)
            /\ elapsed' = 0
            /\ UNCHANGED rwait
       ELSE /\ spc' = [spc EXCEPT ![t] = "readline"]
            /\ rwait' = 0
            /\ UNCHANGED <<slock, sres, sidx, wire, elapsed>>
    /\ UNCHANGED <<ser, sbatch, discarded, tx, rx>>
    /\ UNCHANGED <<camVars, outVars, appVars>>

\* line = ser.readline() returns the oldest buffered line: an acknowledgment
\* ends the wait, any other line is ignored.
ReadLine(t) ==
    /\ spc[t] = "readline"
    /\ rx # <<>>
    /\ rx' = Tail(rx)
    /\ IF IsOk(Head(rx))
       THEN /\ wire' = Append(wire, Event("ok", t))
            /\ NextCommand(t)
            /\ elapsed' = 0
            /\ UNCHANGED discarded
       ELSE /\ spc' = [spc EXCEPT ![t] = "check"]
            /\ discarded' = [discarded EXCEPT ![t] = TRUE]
            /\ UNCHANGED <<slock, sres, sidx, wire, elapsed>>
    /\ rwait' = 0
    /\ UNCHANGED <<ser, sbatch, tx>>
    /\ UNCHANGED <<camVars, outVars, appVars>>

\* line = ser.readline() returns b"" after the transport's read timeout:
\* `if not line: continue`.
ReadNothing(t) ==
    /\ spc[t] = "readline"
    /\ rx = <<>>
    /\ rwait >= ReadTimeout
    /\ spc' = [spc EXCEPT ![t] = "check"]
    /\ rwait' = 0
    /\ UNCHANGED <<ser, slock, sbatch, sidx, sres, discarded, wire, tx, rx, elapsed>>
    /\ UNCHANGED <<camVars, outVars, appVars>>

\* A second passes while a caller is in the acknowledgment wait.
Tick ==
    /\ \E t \in Callers : spc[t] \in {"check", "readline"}
    /\ elapsed < AckTimeout \/ rwait < ReadTimeout
    /\ elapsed' = IF elapsed < AckTimeout THEN elapsed + 1 ELSE elapsed
    /\ rwait' = IF (\E t \in Callers : spc[t] = "readline") /\ rwait < ReadTimeout
                THEN rwait + 1 ELSE rwait
    /\ UNCHANGED <<ser, slock, spc, sbatch, sidx, sres, discarded, wire, tx, rx>>
    /\ UNCHANGED <<camVars, outVars, appVars>>

\* The controller sends an informational line.
ControllerInfo ==
    /\ ser = "open"
    /\ Len(rx) < MaxRx
    /\ rx' = Append(rx, InfoText)
    /\ UNCHANGED <<ser, slock, spc, sbatch, sidx, sres, discarded, wire, tx, elapsed, rwait>>
    /\ UNCHANGED <<camVars, outVars, appVars>>

\* The controller completes the oldest command it has and acknowledges it.
ControllerOk(text) ==
    /\ tx # <<>>
    /\ Len(rx) < MaxRx
    /\ rx' = Append(rx, text)
    /\ tx' = Tail(tx)
    /\ UNCHANGED <<ser, slock, spc, sbatch, sidx, sres, discarded, wire, elapsed, rwait>>
    /\ UNCHANGED <<camVars, outVars, appVars>>

\* SerialManager.disconnect: under the lock, flush (an exception of which is
\* swallowed) and close the transport if there is one, then self._ser = None.
\* The close of an open port is taken to succeed. (disconnectBroken leaves
\* out the last assignment.)
disconnectBroken ==
    /\ Len(dcalls) < MaxDisconnects
    /\ slock = None
    /\ dcalls' = Append(dcalls, ser)
    /\ UNCHANGED <<leaked, serVars, camVars, outVars, macroVars, ctlVars, viewVars, fnVars, fileVars>>
disconnect ==
    /\ Len(dcalls) < MaxDisconnects
    /\ slock = None
    /\ ser' = None
    /\ dcalls' = Append(dcalls, ser)
    /\ UNCHANGED <<slock, spc, sbatch, sidx, sres, discarded, wire, tx, rx, elapsed, rwait>>
    /\ UNCHANGED <<leaked, camVars, outVars, macroVars, ctlVars, viewVars, fnVars, fileVars>>

\* ---------------------------------- scan_api/app.py: move and capture
\* A request thread r of the HTTP layer is the caller CallerOf(r) of the
\* SerialManager and the request r of the camera session.

CallerOf(r) == IF r = "r1" THEN "t1" ELSE "t2"

\* sm.send_commands(["M115", "G21", "G90"], wait_ok=True)
InitCommands == <<"M115", "G21", "G90">>

\* cmds of macro_move_and_capture: G90, a G0 line per axis group asked for,
\* and M400 when wait is set.
MacroCmds(g, w) ==
    <<"G90">> \o [i \in 1..g |-> "G0"] \o (IF w THEN <<"M400">> ELSE <<>>)

\* self._ser.write(payload) or self._ser.flush() raises: the exception leaves
\* send_commands.
WriteRaises(t) ==
    /\ spc[t] = "write"
    /\ ser = "open"
    /\ SLeave(t, "SerialException")
    /\ UNCHANGED <<ser, sbatch, discarded, wire, tx, rx, elapsed, rwait>>
    /\ UNCHANGED <<camVars, outVars, appVars>>

\* ser.readline() raises (the device went away): the exception leaves
\* _read_until_ok and send_commands.
ReadRaises(t) ==
    /\ spc[t] = "readline"
    /\ SLeave(t, "SerialException")
    /\ elapsed' = 0
    /\ rwait' = 0
    /\ UNCHANGED <<ser, sbatch, discarded, wire, tx, rx>>
    /\ UNCHANGED <<camVars, outVars, appVars>>

\* The request arrives, with wait set or not. (The coordinates and the
\* camera_controls of the request are drawn where the handler uses them.)
MacroBegin(r, w) ==
    /\ mpc[r] = "idle"
    /\ mpc' = [mpc EXCEPT ![r] = "ensure"]
    /\ margs' = [margs EXCEPT ![r] = [wait |-> w]]
    /\ UNCHANGED <<serial_lock, stateSerial, camVars, outVars, serVars, ctlVars, viewVars, linkVars, fnVars, fileVars>>

\* _ensure_serial: with STATE.serial_lock:
EnsureAcquire(r) ==
    /\ mpc[r] = "ensure"
    /\ serial_lock = None
    /\ serial_lock' = r
    /\ mpc' = [mpc EXCEPT ![r] = "locked"]
    /\ UNCHANGED <<stateSerial, margs, camVars, outVars, serVars, ctlVars, viewVars, linkVars, fnVars, fileVars>>

\* if STATE.serial and STATE.serial.is_connected(): return STATE.serial
\* (is_connected takes the SerialManager's lock); else sm = SerialManager(),
\* a new object with no transport and a lock of its own.
EnsureCheck(r) ==
    /\ mpc[r] = "locked"
    /\ IF stateSerial # None
       THEN /\ slock = None
            /\ IF ser = "open"
               THEN /\ serial_lock' = None
                    /\ mpc' = [mpc EXCEPT ![r] = "move"]
                    /\ UNCHANGED <<ser, slock>>
               ELSE /\ ser' = None
                    /\ slock' = None
                    /\ mpc' = [mpc EXCEPT ![r] = "new"]
                    /\ UNCHANGED serial_lock
       ELSE /\ ser' = None
            /\ slock' = None
            /\ mpc' = [mpc EXCEPT ![r] = "new"]
            /\ UNCHANGED serial_lock
    /\ UNCHANGED <<stateSerial, margs, camVars, outVars, ctlVars, viewVars, linkVars, fnVars, fileVars>>
    /\ UNCHANGED <<spc, sbatch, sidx, sres, discarded, wire, tx, rx, elapsed, rwait>>

\* sm.connect(...) raises (serial.Serial cannot open the port): the
\* exception leaves _ensure_serial and the handler.
ConnectRaises(r) ==
    /\ mpc[r] = "new"
    /\ ser = None
    /\ serial_lock' = None
    /\ mpc' = [mpc EXCEPT ![r] = "aborted"]
    /\ UNCHANGED <<stateSerial, margs, camVars, outVars, serVars, ctlVars, viewVars, linkVars, fnVars, fileVars>>

\* The initialization send_commands has returned: STATE.serial = sm.
InitAckedBroken(r) == sres[CallerOf(r)] # "none"
InitAcked(r) == sres[CallerOf(r)] = "returned"

\* The end of _ensure_serial after sm.send_commands([...]): the link is
\* stored and returned, or the exception leaves _ensure_serial and the
\* handler with STATE.serial as it was. In the second case nothing refers to
\* sm any more and nothing has closed the transport sm.connect opened.
EnsureEnd(r) ==
    /\ mpc[r] = "new"
    /\ spc[CallerOf(r)] = "idle"
    /\ sres[CallerOf(r)] # "none"
    /\ serial_lock' = None
    /\ IF InitAcked(r)
       THEN /\ stateSerial' = "sm"
            /\ mpc' = [mpc EXCEPT ![r] = "move"]
            /\ sres' = [sres EXCEPT ![CallerOf(r)] = "none"]
            /\ UNCHANGED <<ser, leaked>>
       ELSE /\ mpc' = [mpc EXCEPT ![r] = "aborted"]
            /\ ser' = None
            /\ leaked' = leaked + 1
            /\ UNCHANGED <<stateSerial, sres>>
    /\ UNCHANGED <<margs, dcalls, camVars, outVars, ctlVars, viewVars, fnVars, fileVars>>
    /\ UNCHANGED <<slock, spc, sbatch, sidx, discarded, wire, tx, rx, elapsed, rwait>>

\* An unreferenced serial.Serial is closed by its finalizer when the
\* interpreter collects it, at a moment the code does not control.
Collect ==
    /\ leaked > 0
    /\ leaked' = leaked - 1
    /\ UNCHANGED <<dcalls, camVars, outVars, serVars, macroVars, ctlVars, viewVars, fnVars, fileVars>>

\* sm = _ensure_serial() or sm.send_commands(cmds, wait_ok=True) raised: the
\* exception leaves the handler.
MoveFailedNever(r) == FALSE
MoveFailed(r) == sres[CallerOf(r)] # "returned"

\* sm.send_commands(cmds, wait_ok=True) has ended.
AfterMove(r) ==
    /\ mpc[r] = "move"
    /\ spc[CallerOf(r)] = "idle"
    /\ sres[CallerOf(r)] # "none"
    /\ mpc' = [mpc EXCEPT ![r] = IF MoveFailed(r) THEN "aborted" ELSE "controls"]
    /\ UNCHANGED <<serial_lock, stateSerial, margs, camVars, outVars, serVars, ctlVars, viewVars, linkVars, fnVars, fileVars>>

\* if cam_ctrl: is false (no camera_controls in the request).
SkipControls(r) ==
    /\ mpc[r] = "controls"
    /\ rop[r] = None
    /\ mpc' = [mpc EXCEPT ![r] = "settle"]
    /\ UNCHANGED <<serial_lock, stateSerial, margs, camVars, outVars, serVars, ctlVars, viewVars, linkVars, fnVars, fileVars>>

\* STATE.camera.set_controls(cam_ctrl) has ended: a rejected control leaves
\* the handler.
AfterControls(r) ==
    /\ mpc[r] = "controls"
    /\ rop[r] = "set_controls"
    /\ rpc[r] = "idle"
    /\ mpc' = [mpc EXCEPT ![r] = IF outcome[r] = "raised" THEN "error" ELSE "settle"]
    /\ UNCHANGED <<serial_lock, stateSerial, margs, camVars, outVars, serVars, ctlVars, viewVars, linkVars, fnVars, fileVars>>

\* if settle > 0: time.sleep(settle): the delay, if any, is over.
Settle(r) ==
    /\ mpc[r] = "settle"
    /\ mpc' = [mpc EXCEPT ![r] = "capture"]
    /\ UNCHANGED <<serial_lock, stateSerial, margs, camVars, outVars, serVars, ctlVars, viewVars, linkVars, fnVars, fileVars>>

\* img = STATE.camera.capture_jpeg_bytes() has ended; the rest of the
\* handler transforms, saves and answers.
AfterCapture(r) ==
    /\ mpc[r] = "capture"
    /\ rop[r] = "capture_jpeg_bytes"
    /\ rpc[r] = "idle"
    /\ mpc' = [mpc EXCEPT ![r] = IF outcome[r] = "raised" THEN "error" ELSE "done"]
    /\ UNCHANGED <<serial_lock, stateSerial, margs, camVars, outVars, serVars, ctlVars, viewVars, linkVars, fnVars, fileVars>>

\* ------------------------------ CameraController.set_controls: the mapping
\* A value of the request is absent (or None), an integer, or a string; an
\* enum member of libcamera is the pair of its class and its name.

NoValue == [none |-> TRUE]
IntValue == [int |-> 1]
Str(text) == [str |-> text]
Enum(cls, name) == [enum |-> <<cls, name>>]
IsStr(v) == DOMAIN v = {"str"}
IsInt(v) == DOMAIN v = {"int"}

EnumKeys == {"af_mode", "af_trigger", "awb_mode", "noise_reduction_mode"}
Texts == {"auto", " Auto ", "start", "off", "bogus"}
Values == {NoValue, IntValue} \cup {Str(text) : text \in Texts}

\* name = v.strip().lower()
StripLower(text) == IF text = " Auto " THEN "auto" ELSE text

\* The keys of the `mapping` dictionaries.
AfModeNames == {"manual", "auto", "continuous"}
AfTriggerNames == {"start", "cancel"}
AwbModeNames == {"auto", "incandescent", "tungsten", "fluorescent", "indoor",
                 "daylight", "cloudy", "shade"}
NrModeNames == {"off", "fast", "high_quality", "minimal", "zsl"}

Names(k) ==
    CASE k = "af_mode" -> AfModeNames
      [] k = "af_trigger" -> AfTriggerNames
      [] k = "awb_mode" -> AwbModeNames
      [] k = "noise_reduction_mode" -> NrModeNames

\* The device's control a friendly key is translated to.
DeviceKey(k) ==
    CASE k = "af_mode" -> "AfMode"
      [] k = "af_trigger" -> "AfTrigger"
      [] k = "awb_mode" -> "AwbMode"
      [] k = "noise_reduction_mode" -> "NoiseReductionMode"

\* return mapping.get(name, v): an unknown name comes back as it was given.
mapping_get_default(v) == v

_af_mode_value(v) ==
    IF ~libcamera THEN v
    ELSE IF IsStr(v)
         THEN IF StripLower(v.str) \in AfModeNames
              THEN Enum("AfModeEnum", StripLower(v.str))
              ELSE mapping_get_default(v)
         ELSE v

_af_trigger_value(v) ==
    IF ~libcamera THEN v
    ELSE IF IsStr(v)
         THEN IF StripLower(v.str) \in AfTriggerNames
              THEN Enum("AfTriggerEnum", StripLower(v.str))
              ELSE mapping_get_default(v)
         ELSE v

\* return mapping.get(name): None for an unknown name. (The members named in
\* the mapping are taken to exist in the libcamera at hand.)
_awb_mode_value(v) ==
    IF IsInt(v) THEN v
    ELSE IF ~libcamera THEN (IF IsStr(v) THEN NoValue ELSE v)
    ELSE IF IsStr(v)
         THEN IF StripLower(v.str) \in AwbModeNames
              THEN Enum("AwbModeEnum", StripLower(v.str))
              ELSE NoValue
         ELSE v

_nr_mode_value(v) ==
    IF IsInt(v) THEN v
    ELSE IF ~libcamera THEN (IF IsStr(v) THEN NoValue ELSE v)
    ELSE IF IsStr(v)
         THEN IF StripLower(v.str) \in NrModeNames
              THEN Enum("NoiseReductionModeEnum", StripLower(v.str))
              ELSE NoValue
         ELSE v

\* The value stored in m for key k, or NoValue when the key is left out.
\* scan_api/camera.py translates all four keys; camera_view/camera_manager.py
\* translates af_mode and af_trigger and stores the other two as given.
Translated(k) ==
    IF ctrl[k] = NoValue THEN NoValue
    ELSE CASE k = "af_mode" -> _af_mode_value(ctrl[k])
           [] k = "af_trigger" -> _af_trigger_value(ctrl[k])
           [] k = "awb_mode" ->
                IF variant = "scan_api" THEN _awb_mode_value(ctrl[k]) ELSE ctrl[k]
           [] k = "noise_reduction_mode" ->
                IF variant = "scan_api" THEN _nr_mode_value(ctrl[k]) ELSE ctrl[k]

\* The loop of set_controls over the items of ctrl.
Mapping ==
    LET kept == {k \in EnumKeys : Translated(k) # NoValue}
    IN  [dk \in {DeviceKey(k) : k \in kept} |->
            Translated(CHOOSE k \in kept : DeviceKey(k) = dk)]

EmptyMapping == [dk \in {} |-> NoValue]

\* set_controls(ctrl): build m; if not m: return; else the device gets m.
ApplyControls ==
    /\ ctlpc = "input"
    /\ m' = Mapping
    /\ ctlpc' = IF DOMAIN Mapping = {} THEN "returned" ELSE "sent"
    /\ UNCHANGED <<variant, libcamera, ctrl>>
    /\ UNCHANGED <<camVars, outVars, serVars, macroVars, viewVars, linkVars, fnVars, fileVars>>

\* --------------------------------------- scan_api/app.py: printer_move
\* A coordinate of the request is absent (None) or a number; the feed rates
\* are those of STATE. A command line is the record of its words.

Absent == "none"
Coords == {Absent, "0", "12.5"}

Line(op, f, x, y, z) == [op |-> op, f |-> f, x |-> x, y |-> y, z |-> z]
G90 == Line("G90", Absent, Absent, Absent, Absent)
M400 == Line("M400", Absent, Absent, Absent, Absent)

\* add_xy: parts = ["G0", F<feed_xy>], plus X and Y if given; the line is
\* appended if len(parts) > 2.
add_xy(c) ==
    IF pm.x # Absent \/ pm.y # Absent
    THEN Append(c, Line("G0", "feed_xy", pm.x, pm.y, Absent))
    ELSE c

\* add_z: the line G0 F<feed_z> Z<z> is appended if z is given.
add_z(c) ==
    IF pm.z # Absent
    THEN Append(c, Line("G0", "feed_z", Absent, Absent, pm.z))
    ELSE c

\* if safe and z is not None and (x is not None or y is not None):
SafeFirstNever == FALSE
SafeFirst == pm.safe /\ pm.z # Absent /\ (pm.x # Absent \/ pm.y # Absent)

\* cmds = ["G90"]; the moves in the order chosen; M400 if wait.
MoveCmds ==
    LET moves == IF SafeFirst THEN add_xy(add_z(<<G90>>)) ELSE add_z(add_xy(<<G90>>))
    IN  IF pm.wait THEN Append(moves, M400) ELSE moves

\* printer_move builds cmds for its request.
printer_move ==
    /\ cmds = <<>>
    /\ cmds' = MoveCmds
    /\ UNCHANGED <<pm, crop, cropped>>
    /\ UNCHANGED <<camVars, outVars, serVars, macroVars, ctlVars, viewVars, linkVars, fileVars>>

\* ------------------------------------- scan_api/camera.py: crop_from_center
\* The arguments are Python integers. Those listed in crop.huge stand for
\* integers of magnitude 2^1024 or more, which no float holds: `cw / 2` and
\* the conversion of ox in `<float> + ox` raise OverflowError for them. For
\* the others the arithmetic is exact.

CropArgs == {"cw", "ch", "ox", "oy"}

\* int(x) of a float: truncation towards zero; n is twice the float's value.
IntOfHalf(n) == IF n >= 0 THEN n \div 2 ELSE -((-n) \div 2)

Min(a, b) == IF a <= b THEN a ELSE b
Max(a, b) == IF a >= b THEN a ELSE b

\* max(0, min(v, bound))
Clamp(v, bound) == Max(0, Min(v, bound))

\* left = int(cx - cw / 2 + ox), with cx = w // 2 (and top likewise).
Anchor(side, size, offset) == IntOfHalf(2 * (side \div 2) - size + 2 * offset)

\* The body of crop_from_center.
CropResult ==
    IF crop.huge # {}
    THEN [status |-> "raised", left |-> 0, top |-> 0, right |-> 0, bottom |-> 0,
          size |-> <<0, 0>>]
    ELSE LET left0 == Anchor(crop.w, crop.cw, crop.ox)
             top0 == Anchor(crop.h, crop.ch, crop.oy)
             left == Clamp(left0, crop.w)
             top == Clamp(top0, crop.h)
             right == Clamp(left0 + crop.cw, crop.w)
             bottom == Clamp(top0 + crop.ch, crop.h)
         IN  [status |-> "returned",
              left |-> left, top |-> top, right |-> right, bottom |-> bottom,
              size |-> IF right <= left \/ bottom <= top
                       THEN <<crop.w, crop.h>>
                       ELSE <<right - left, bottom - top>>]

crop_from_center ==
    /\ cropped.status = "none"
    /\ cropped' = CropResult
    /\ UNCHANGED <<pm, cmds, crop>>
    /\ UNCHANGED <<camVars, outVars, serVars, macroVars, ctlVars, viewVars, linkVars, fileVars>>

\* ----------------------- capture_file / capture_still: the files written
\* Both methods name the file before they take the session lock:
\* ts = datetime.now().strftime("%Y%m%d_%H%M%S_%f"), filename =
\* f"{self.label}_{ts}.jpg". The format prints every field of the local time
\* down to the microsecond, so two file names of one session are equal
\* exactly when the two clock readings are.

Label == "rpi_cam0"
Path(r) == <<Label, ts[r]>>

\* A microsecond passes.
ClockTick ==
    /\ now < MaxClock
    /\ now' = now + 1
    /\ UNCHANGED <<ts, fpc, written, camVars, outVars, serVars>>
    /\ UNCHANGED <<macroVars, ctlVars, viewVars, linkVars, fnVars>>

\* The local wall clock datetime.now() reads is set back (time
\* synchronisation, the end of daylight saving time).
ClockSetBack ==
    /\ now > 0
    /\ now' \in 0..(now - 1)
    /\ UNCHANGED <<ts, fpc, written, camVars, outVars, serVars>>
    /\ UNCHANGED <<macroVars, ctlVars, viewVars, linkVars, fnVars>>

\* A request thread calls capture_file: it reads the clock and builds the
\* path, then reaches `with self.lock:`.
ReadClock(r) ==
    /\ fpc[r] = "idle"
    /\ Len(written) + Cardinality({q \in Requests : fpc[q] # "idle"}) < MaxCaptures
    /\ ts' = [ts EXCEPT ![r] = now]
    /\ fpc' = [fpc EXCEPT ![r] = "lock"]
    /\ UNCHANGED <<now, written, camVars, outVars, serVars>>
    /\ UNCHANGED <<macroVars, ctlVars, viewVars, linkVars, fnVars>>

\* with self.lock:
FileAcquire(r) ==
    /\ fpc[r] = "lock"
    /\ lock = None
    /\ lock' = r
    /\ fpc' = [fpc EXCEPT ![r] = "cap"]
    /\ UNCHANGED <<config, recording, rpc, rop, exc, outcome, tmpfile>>
    /\ UNCHANGED <<now, ts, written, outVars, serVars>>
    /\ UNCHANGED <<macroVars, ctlVars, viewVars, linkVars, fnVars>>

\* The body of the `with` block: the device captures to the path and the
\* stream is resumed (ok), or the capture raises and the call ends with the
\* device in the still profile and nothing written.
FileCapture(r, ok) ==
    /\ fpc[r] = "cap"
    /\ lock' = None
    /\ fpc' = [fpc EXCEPT ![r] = "idle"]
    /\ written' = IF ok THEN Append(written, Path(r)) ELSE written
    /\ config' = IF ok THEN "preview" ELSE "still"
    /\ recording' = ok
    /\ UNCHANGED <<rpc, rop, exc, outcome, tmpfile>>
    /\ UNCHANGED <<now, ts, outVars, serVars>>
    /\ UNCHANGED <<macroVars, ctlVars, viewVars, linkVars, fnVars>>

\* ------------------------------------------ triple_cam/app.py: triple_snap
\* Each capture thread runs capture_still of camera_manager.py: `with
\* self.lock:`, switch_mode_and_capture_file(still_config, path) and
\* set_controls({}); each device call succeeds or raises, and an exception
\* leaves capture_still (and releases the lock).

\* The handler has saved the phone image and listed the cameras.
SnapBegin ==
    /\ snappc = "idle"
    /\ snappc' = "start"
    /\ snapi' = 1
    /\ UNCHANGED <<vlock, thr, captured, results, xpc, xcam>>
    /\ UNCHANGED <<camVars, outVars, serVars, macroVars, ctlVars, linkVars, fnVars, fileVars, stopVars>>

\* for cid in cam_ids: t = threading.Thread(target=do_cap, ...); t.start()
SnapStart ==
    /\ snappc = "start"
    /\ thr' = [thr EXCEPT ![CamIds[snapi]] = "lock"]
    /\ IF snapi < Len(CamIds)
       THEN snapi' = snapi + 1 /\ UNCHANGED snappc
       ELSE snapi' = 1 /\ snappc' = "join"
    /\ UNCHANGED <<vlock, captured, results, xpc, xcam>>
    /\ UNCHANGED <<camVars, outVars, serVars, macroVars, ctlVars, linkVars, fnVars, fileVars, stopVars>>

\* do_cap: ctrl.capture_still(CAPTURES_DIR) reaches `with self.lock:`.
ThreadAcquire(c) ==
    /\ thr[c] = "lock"
    /\ vlock[c] = None
    /\ vlock' = [vlock EXCEPT ![c] = "snap"]
    /\ thr' = [thr EXCEPT ![c] = "cap"]
    /\ UNCHANGED <<captured, snappc, snapi, results, xpc, xcam>>
    /\ UNCHANGED <<camVars, outVars, serVars, macroVars, ctlVars, linkVars, fnVars, fileVars, stopVars>>

\* self.picam2.switch_mode_and_capture_file(self.still_config, path): an
\* exception ends the thread (do_cap catches nothing).
ThreadCapture(c, ok) ==
    /\ thr[c] = "cap"
    /\ IF ok THEN thr' = [thr EXCEPT ![c] = "ctl"] /\ UNCHANGED vlock
             ELSE thr' = [thr EXCEPT ![c] = "dead"] /\ vlock' = [vlock EXCEPT ![c] = None]
    /\ UNCHANGED <<captured, snappc, snapi, results, xpc, xcam>>
    /\ UNCHANGED <<camVars, outVars, serVars, macroVars, ctlVars, linkVars, fnVars, fileVars, stopVars>>

\* self.picam2.set_controls({}) and the end of the `with` block.
ThreadControls(c, ok) ==
    /\ thr[c] = "ctl"
    /\ vlock' = [vlock EXCEPT ![c] = None]
    /\ thr' = [thr EXCEPT ![c] = IF ok THEN "store" ELSE "dead"]
    /\ UNCHANGED <<captured, snappc, snapi, results, xpc, xcam>>
    /\ UNCHANGED <<camVars, outVars, serVars, macroVars, ctlVars, linkVars, fnVars, fileVars, stopVars>>

\* captured[cid] = path, and the thread ends.
ThreadStore(c) ==
    /\ thr[c] = "store"
    /\ captured' = Append(captured, c)
    /\ thr' = [thr EXCEPT ![c] = "ok"]
    /\ UNCHANGED <<vlock, snappc, snapi, results, xpc, xcam>>
    /\ UNCHANGED <<camVars, outVars, serVars, macroVars, ctlVars, linkVars, fnVars, fileVars, stopVars>>

\* t.join() returns when the thread has ended.
FinishedBroken(c) == TRUE
Finished(c) == thr[c] \in {"ok", "dead"}

\* for t in threads: t.join()
SnapJoin ==
    /\ snappc = "join"
    /\ Finished(CamIds[snapi])
    /\ IF snapi < Len(CamIds)
       THEN snapi' = snapi + 1 /\ UNCHANGED snappc
       ELSE snapi' = 0 /\ snappc' = "collect"
    /\ UNCHANGED <<vlock, thr, captured, results, xpc, xcam>>
    /\ UNCHANGED <<camVars, outVars, serVars, macroVars, ctlVars, linkVars, fnVars, fileVars, stopVars>>

\* for cid, path in captured.items(): results.append({...}); then the
\* response {"status": "ok", ..., "pi": results}.
SnapCollect ==
    /\ snappc = "collect"
    /\ results' = captured
    /\ snappc' = "returned"
    /\ UNCHANGED <<vlock, thr, captured, snapi, xpc, xcam>>
    /\ UNCHANGED <<camVars, outVars, serVars, macroVars, ctlVars, linkVars, fnVars, fileVars, stopVars>>

\* A request /api/<cam_id>/capture for one camera: capture_still on the
\* same session, by another request thread.
OtherCapture(c) ==
    /\ xpc = "idle"
    /\ xcam = None
    /\ xcam' = c
    /\ xpc' = "lock"
    /\ UNCHANGED <<vlock, thr, captured, snappc, snapi, results>>
    /\ UNCHANGED <<camVars, outVars, serVars, macroVars, ctlVars, linkVars, fnVars, fileVars, stopVars>>

OtherAcquire ==
    /\ xpc = "lock"
    /\ vlock[xcam] = None
    /\ vlock' = [vlock EXCEPT ![xcam] = "x"]
    /\ xpc' = "cap"
    /\ UNCHANGED <<thr, captured, snappc, snapi, results, xcam>>
    /\ UNCHANGED <<camVars, outVars, serVars, macroVars, ctlVars, linkVars, fnVars, fileVars, stopVars>>

\* Both device calls of capture_still, and the end of the `with` block.
OtherCaptureEnd ==
    /\ xpc = "cap"
    /\ vlock' = [vlock EXCEPT ![xcam] = None]
    /\ xpc' = "idle"
    /\ UNCHANGED <<thr, captured, snappc, snapi, results, xcam>>
    /\ UNCHANGED <<camVars, outVars, serVars, macroVars, ctlVars, linkVars, fnVars, fileVars, stopVars>>

\* ---------------- camera_manager.py: CameraManager.stop, CameraController.stop

\* try: self.picam2.stop_recording() except Exception: pass -- the call goes
\* on whether the device call raised or not. (SwallowRecBroken lets the
\* exception out.)
SwallowRecBroken(ok) == ok
SwallowRec(ok) == TRUE

\* try: self.picam2.stop() except Exception: pass
SwallowStopBroken(ok) == ok
SwallowStop(ok) == TRUE

\* The controller the for loop of u's CameraManager.stop is at.
StopCam(u) == CamIds[sti[u]]

\* An exception leaves CameraController.stop (releasing the lock) and the
\* for loop of CameraManager.stop.
StopRaises(u) ==
    /\ vlock' = [vlock EXCEPT ![StopCam(u)] = None]
    /\ stpc' = [stpc EXCEPT ![u] = "raised"]
    /\ UNCHANGED <<sti, stopCalls>>

\* CameraManager.stop is called: for ctrl in self.controllers.values():
ManagerStop(u) ==
    /\ stpc[u] \in {"idle", "returned"}
    /\ stpc' = [stpc EXCEPT ![u] = "lock"]
    /\ sti' = [sti EXCEPT ![u] = 1]
    /\ tried' = [tried EXCEPT ![u] = {}]
    /\ clean' = [clean EXCEPT ![u] = TRUE]
    /\ UNCHANGED <<vlock, vrec, vstarted, stopCalls>>
    /\ UNCHANGED <<camVars, outVars, serVars, macroVars, ctlVars, linkVars, fnVars, fileVars, snapVars>>

\* ctrl.stop(): with self.lock:
StopAcquire(u) ==
    /\ stpc[u] = "lock"
    /\ vlock[StopCam(u)] = None
    /\ vlock' = [vlock EXCEPT ![StopCam(u)] = u]
    /\ stpc' = [stpc EXCEPT ![u] = "rec"]
    /\ UNCHANGED <<vrec, vstarted, sti, tried, stopCalls, clean>>
    /\ UNCHANGED <<camVars, outVars, serVars, macroVars, ctlVars, linkVars, fnVars, fileVars, snapVars>>

\* self.picam2.stop_recording(), in its try block.
StopEncoder(u, ok) ==
    /\ stpc[u] = "rec"
    /\ vrec' = [vrec EXCEPT ![StopCam(u)] = IF ok THEN FALSE ELSE @]
    /\ tried' = [tried EXCEPT ![u] = @ \cup {<<StopCam(u), "stop_recording">>}]
    /\ clean' = [clean EXCEPT ![u] = ok]
    /\ IF SwallowRec(ok)
       THEN /\ stpc' = [stpc EXCEPT ![u] = "dev"]
            /\ UNCHANGED <<vlock, sti, stopCalls>>
       ELSE StopRaises(u)
    /\ UNCHANGED vstarted
    /\ UNCHANGED <<camVars, outVars, serVars, macroVars, ctlVars, linkVars, fnVars, fileVars, snapVars>>

\* self.picam2.stop(), in its try block; then the end of the `with` block
\* and the next controller of the for loop, or the return of
\* CameraManager.stop.
StopDevice(u, ok) ==
    /\ stpc[u] = "dev"
    /\ vstarted' = [vstarted EXCEPT ![StopCam(u)] = IF ok THEN FALSE ELSE @]
    /\ tried' = [tried EXCEPT ![u] = @ \cup {<<StopCam(u), "stop">>}]
    /\ clean' = [clean EXCEPT ![u] = TRUE]
    /\ IF SwallowStop(ok)
       THEN /\ vlock' = [vlock EXCEPT ![StopCam(u)] = None]
            /\ stopCalls' = [stopCalls EXCEPT ![StopCam(u)] =
                                IF (clean[u] /\ ok) \/ @ = "clean" THEN "clean" ELSE "failed"]
            /\ IF sti[u] < Len(CamIds)
               THEN /\ sti' = [sti EXCEPT ![u] = @ + 1]
                    /\ stpc' = [stpc EXCEPT ![u] = "lock"]
               ELSE /\ stpc' = [stpc EXCEPT ![u] = "returned"]
                    /\ UNCHANGED sti
       ELSE StopRaises(u)
    /\ UNCHANGED vrec
    /\ UNCHANGED <<camVars, outVars, serVars, macroVars, ctlVars, linkVars, fnVars, fileVars, snapVars>>

\* ---------------------------------------------------------------- system

InitSessions ==
    /\ config = "preview"
    /\ recording = TRUE
    /\ lock = None
    /\ rpc = [r \in Requests |-> "idle"]
    /\ rop = [r \in Requests |-> None]
    /\ exc = [r \in Requests |-> FALSE]
    /\ outcome = [r \in Requests |-> "none"]
    /\ tmpfile = [r \in Requests |-> "none"]
    /\ frame = 0
    /\ condition = None
    /\ cpc = [c \in Consumers |-> "idle"]
    /\ stale = [c \in Consumers |-> FALSE]
    /\ wokenBy = [c \in Consumers |-> 0]
    /\ lag = [c \in Consumers |-> 0]
    /\ got = [c \in Consumers |-> 0]
    /\ gotStale = [c \in Consumers |-> FALSE]
    /\ gotLag = [c \in Consumers |-> 0]
    /\ ser = None
    /\ slock = None
    /\ spc = [t \in Callers |-> "idle"]
    /\ sbatch = [t \in Callers |-> [n |-> 0, wait_ok |-> TRUE]]
    /\ sidx = [t \in Callers |-> 0]
    /\ sres = [t \in Callers |-> "none"]
    /\ discarded = [t \in Callers |-> FALSE]
    /\ wire = <<>>
    /\ tx = <<>>
    /\ rx = <<>>
    /\ elapsed = 0
    /\ rwait = 0
    /\ serial_lock = None
    /\ stateSerial = None
    /\ mpc = [r \in Requests |-> "idle"]
    /\ margs = [r \in Requests |-> [wait |-> TRUE]]
    /\ leaked = 0
    /\ dcalls = <<>>
    /\ now = 0
    /\ ts = [r \in Requests |-> 0]
    /\ fpc = [r \in Requests |-> "idle"]
    /\ written = <<>>

\* The CameraManager of camera_view / triple_cam: every session was started
\* by its constructor; no request yet.
InitView ==
    /\ vlock = [c \in Cams |-> None]
    /\ thr = [c \in Cams |-> "new"]
    /\ captured = <<>>
    /\ snappc = "idle"
    /\ snapi = 0
    /\ results = <<>>
    /\ xpc = "idle"
    /\ xcam = None
    /\ vrec = [c \in Cams |-> TRUE]
    /\ vstarted = [c \in Cams |-> TRUE]
    /\ stpc = [u \in Stoppers |-> "idle"]
    /\ sti = [u \in Stoppers |-> 0]
    /\ tried = [u \in Stoppers |-> {}]
    /\ stopCalls = [c \in Cams |-> "none"]
    /\ clean = [u \in Stoppers |-> TRUE]

\* No set_controls argument under study: an empty request.
NoControls ==
    /\ variant = "scan_api"
    /\ libcamera = TRUE
    /\ ctrl = [k \in EnumKeys |-> NoValue]
    /\ m = EmptyMapping
    /\ ctlpc = "input"

\* No printer_move request under study.
NoMove ==
    /\ pm = [x |-> Absent, y |-> Absent, z |-> Absent, safe |-> FALSE, wait |-> TRUE]
    /\ cmds = <<>>

\* No crop_from_center call under study.
NoCrop ==
    /\ crop = [w |-> 0, h |-> 0, cw |-> 0, ch |-> 0, ox |-> 0, oy |-> 0, huge |-> {}]
    /\ cropped = [status |-> "none", left |-> 0, top |-> 0, right |-> 0, bottom |-> 0,
                  size |-> <<0, 0>>]

Init ==
    /\ InitSessions
    /\ InitView
    /\ NoControls
    /\ NoMove
    /\ NoCrop

\* Any request of printer_move: each coordinate given or not, safe and wait
\* set or not.
InitMove ==
    /\ InitSessions
    /\ InitView
    /\ NoControls
    /\ NoCrop
    /\ pm \in [x : Coords, y : Coords, z : Coords, safe : BOOLEAN, wait : BOOLEAN]
    /\ cmds = <<>>

\* Any call of crop_from_center on a small image: crop sizes negative, zero,
\* inside and beyond the image, offsets inside and outside it, and at most
\* one argument beyond the range of a float.
InitCrop ==
    /\ InitSessions
    /\ InitView
    /\ NoControls
    /\ NoMove
    /\ crop \in [w : 1..MaxSide, h : 1..MaxSide,
                 cw : (-1)..(MaxSide + 1), ch : (-1)..(MaxSide + 1),
                 ox : (-MaxSide)..MaxSide, oy : (-MaxSide)..MaxSide,
                 huge : {{}} \cup {{a} : a \in CropArgs}]
    /\ cropped = [status |-> "none", left |-> 0, top |-> 0, right |-> 0, bottom |-> 0,
                  size |-> <<0, 0>>]

\* Any argument of set_controls, for either CameraController, with or
\* without libcamera's controls module.
InitControls ==
    /\ InitSessions
    /\ InitView
    /\ variant \in {"scan_api", "camera_view"}
    /\ libcamera \in BOOLEAN
    /\ ctrl \in [EnumKeys -> Values]
    /\ m = EmptyMapping
    /\ ctlpc = "input"
    /\ NoMove
    /\ NoCrop

\* The camera session: the request threads and the encoder.
Next ==
    \/ \E r \in Requests, o \in {"capture_jpeg_bytes", "capture_file"} : CallCapture(r, o)
    \/ \E r \in Requests, empty \in BOOLEAN : set_controls(r, empty)
    \/ \E r \in Requests : Acquire(r)
    \/ \E r \in Requests, ok \in BOOLEAN : DeviceSetControls(r, ok)
    \/ \E r \in Requests, ok \in BOOLEAN : StopRecording(r, ok)
    \/ \E r \in Requests, ok \in BOOLEAN : SwitchStill(r, ok)
    \/ \E r \in Requests, ok \in BOOLEAN : Capture(r, ok)
    \/ \E r \in Requests, ok \in BOOLEAN : CreateTmp(r, ok)
    \/ \E r \in Requests, ok \in BOOLEAN : CaptureTmp(r, ok)
    \/ \E r \in Requests : Unlink(r)
    \/ \E r \in Requests, ok \in BOOLEAN : SwitchPreview(r, ok)
    \/ \E r \in Requests, ok \in BOOLEAN : StartRecording(r, ok)
    \/ write

Spec == Init /\ [][Next]_vars

\* The frame broadcast: the encoder, recording throughout, and the consumers.
NextStream ==
    \/ write
    \/ \E c \in Consumers : Begin(c)
    \/ \E c \in Consumers : Enter(c)
    \/ \E c \in Consumers : wait(c)
    \/ \E c \in Consumers : Reacquire(c)
    \/ \E c \in Consumers : Read(c)

SpecStream == Init /\ [][NextStream]_vars

\* The camera session with its encoder, one request thread that captures
\* stills, one that sets controls, and one streaming consumer of its
\* StreamingOutput.
Viewer == "c1"
Capturer == "r1"
Setter == "r2"

NextSession ==
    \/ \E o \in {"capture_jpeg_bytes", "capture_file"} : CallCapture(Capturer, o)
    \/ \E empty \in BOOLEAN : set_controls(Setter, empty)
    \/ \E r \in Requests : Acquire(r)
    \/ \E ok \in BOOLEAN : DeviceSetControls(Setter, ok)
    \/ \E ok \in BOOLEAN : StopRecording(Capturer, ok)
    \/ \E ok \in BOOLEAN : SwitchStill(Capturer, ok)
    \/ \E ok \in BOOLEAN : Capture(Capturer, ok)
    \/ \E ok \in BOOLEAN : CreateTmp(Capturer, ok)
    \/ \E ok \in BOOLEAN : CaptureTmp(Capturer, ok)
    \/ Unlink(Capturer)
    \/ \E ok \in BOOLEAN : SwitchPreview(Capturer, ok)
    \/ \E ok \in BOOLEAN : StartRecording(Capturer, ok)
    \/ write
    \/ Begin(Viewer)
    \/ Enter(Viewer)
    \/ wait(Viewer)
    \/ Reacquire(Viewer)
    \/ Read(Viewer)

SpecSession == Init /\ [][NextSession]_vars

\* The encoder thread and the consumer run whenever they can; nothing is
\* assumed about the request threads (a device call may never return).
FairSession ==
    /\ SpecSession
    /\ WF_vars(write)
    /\ WF_vars(wait(Viewer))
    /\ WF_vars(Read(Viewer))
    /\ SF_vars(Enter(Viewer))
    /\ SF_vars(Reacquire(Viewer))

\* The link to the motion controller: its callers, the clock, the controller.
NextSerial ==
    \/ connect
    \/ \E t \in Callers, n \in 1..MaxBatch, w \in BOOLEAN : send_commands(t, n, w)
    \/ \E t \in Callers : SerialAcquire(t)
    \/ \E t \in Callers : _write_line(t)
    \/ \E t \in Callers : CheckTime(t)
    \/ \E t \in Callers : ReadLine(t)
    \/ \E t \in Callers : ReadNothing(t)
    \/ Tick
    \/ ControllerInfo
    \/ \E text \in AckTexts : ControllerOk(text)

SpecSerial == Init /\ [][NextSerial]_vars

\* One SerialManager used through its public methods: connect, disconnect
\* and send_commands, in any order.
NextLink ==
    \/ connect
    \/ disconnect
    \/ \E t \in Callers, n \in 1..MaxBatch, w \in BOOLEAN : send_commands(t, n, w)
    \/ \E t \in Callers : SerialAcquire(t)
    \/ \E t \in Callers : _write_line(t)
    \/ \E t \in Callers : CheckTime(t)
    \/ \E t \in Callers : ReadLine(t)
    \/ \E t \in Callers : ReadNothing(t)
    \/ Tick
    \/ ControllerOk(<<"ok">>)

SpecLink == Init /\ [][NextLink]_vars

\* Caller t is inside the `with self._lock:` block of send_commands: at a
\* write of its batch or in an acknowledgment wait.
InBatch(t) == spc[t] \in {"write", "check", "readline"}

\* The exceptions a call of send_commands can end with.
Failures == {"TimeoutError", "RuntimeError", "SerialException"}

\* Caller t's call of send_commands has failed.
Failed(t) == sres[t] \in Failures

\* One SerialManager with a transport that can fail: batches of its callers
\* (an emergency stop is the batch of one line sent with wait_ok=False),
\* connect and disconnect, write and read errors, the clock, the controller.
NextBatch ==
    \/ connect
    \/ disconnect
    \/ \E t \in Callers, n \in 1..MaxBatch, w \in BOOLEAN : send_commands(t, n, w)
    \/ \E t \in Callers : SerialAcquire(t)
    \/ \E t \in Callers : _write_line(t)
    \/ \E t \in Callers : WriteRaises(t)
    \/ \E t \in Callers : CheckTime(t)
    \/ \E t \in Callers : ReadLine(t)
    \/ \E t \in Callers : ReadNothing(t)
    \/ \E t \in Callers : ReadRaises(t)
    \/ Tick
    \/ ControllerOk(<<"ok">>)

SpecBatch == Init /\ [][NextBatch]_vars

\* A batch that can fail and a caller blocked behind it: the second caller
\* calls send_commands with one command while the first one is inside its
\* batch, and disconnect is called once the first one's batch has failed.
First == "t1"
Second == "t2"

NextBlocked ==
    \/ connect
    \/ Failed(First) /\ disconnect
    \/ \E n \in 1..MaxBatch, w \in BOOLEAN : send_commands(First, n, w)
    \/ \E w \in BOOLEAN : InBatch(First) /\ send_commands(Second, 1, w)
    \/ \E t \in Callers : SerialAcquire(t)
    \/ \E t \in Callers : _write_line(t)
    \/ \E t \in Callers : WriteRaises(t)
    \/ \E t \in Callers : CheckTime(t)
    \/ \E t \in Callers : ReadLine(t)
    \/ \E t \in Callers : ReadNothing(t)
    \/ \E t \in Callers : ReadRaises(t)
    \/ Tick
    \/ ControllerOk(<<"ok">>)

SpecBlocked == Init /\ [][NextBlocked]_vars

\* Move-and-capture requests of scan_api/app.py on the one link and the one
\* camera session.
NextMacro ==
    \/ \E r \in Requests, w \in BOOLEAN : MacroBegin(r, w)
    \/ \E r \in Requests : EnsureAcquire(r)
    \/ \E r \in Requests : EnsureCheck(r)
    \/ \E r \in Requests : mpc[r] = "new" /\ connect
    \/ \E r \in Requests : ConnectRaises(r)
    \/ \E r \in Requests :
          /\ mpc[r] = "new" /\ ser = "open"
          /\ send_commands(CallerOf(r), Len(InitCommands), TRUE)
    \/ \E r \in Requests : EnsureEnd(r)
    \/ Collect
    \/ \E r \in Requests, g \in 0..MaxMoves :
          /\ mpc[r] = "move"
          /\ send_commands(CallerOf(r), Len(MacroCmds(g, margs[r].wait)), TRUE)
    \/ \E t \in Callers : SerialAcquire(t)
    \/ \E t \in Callers : _write_line(t)
    \/ \E t \in Callers : WriteRaises(t)
    \/ \E t \in Callers : CheckTime(t)
    \/ \E t \in Callers : ReadLine(t)
    \/ \E t \in Callers : ReadNothing(t)
    \/ \E t \in Callers : ReadRaises(t)
    \/ Tick
    \/ ControllerOk(<<"ok">>)
    \/ \E r \in Requests : AfterMove(r)
    \/ \E r \in Requests, empty \in BOOLEAN :
          /\ mpc[r] = "controls" /\ rop[r] = None
          /\ set_controls(r, empty)
    \/ \E r \in Requests : SkipControls(r)
    \/ \E r \in Requests : AfterControls(r)
    \/ \E r \in Requests : Settle(r)
    \/ \E r \in Requests :
          /\ mpc[r] = "capture" /\ rop[r] # "capture_jpeg_bytes"
          /\ CallCapture(r, "capture_jpeg_bytes")
    \/ \E r \in Requests : Acquire(r)
    \/ \E r \in Requests, ok \in BOOLEAN : DeviceSetControls(r, ok)
    \/ \E r \in Requests, ok \in BOOLEAN : StopRecording(r, ok)
    \/ \E r \in Requests, ok \in BOOLEAN : SwitchStill(r, ok)
    \/ \E r \in Requests, ok \in BOOLEAN : Capture(r, ok)
    \/ \E r \in Requests, ok \in BOOLEAN : CreateTmp(r, ok)
    \/ \E r \in Requests, ok \in BOOLEAN : CaptureTmp(r, ok)
    \/ \E r \in Requests : Unlink(r)
    \/ \E r \in Requests, ok \in BOOLEAN : SwitchPreview(r, ok)
    \/ \E r \in Requests, ok \in BOOLEAN : StartRecording(r, ok)
    \/ \E r \in Requests : AfterCapture(r)

SpecMacro == Init /\ [][NextMacro]_vars

\* The steps of one request thread r running macro_move_and_capture with one
\* G90 to send and camera_controls given: every lock of scan_api is taken on
\* the way (STATE.serial_lock, SerialManager._lock, the session's RLock).
MacroStep(r) ==
    \/ MacroBegin(r, FALSE)
    \/ EnsureAcquire(r)
    \/ EnsureCheck(r)
    \/ mpc[r] = "new" /\ connect
    \/ ConnectRaises(r)
    \/ /\ mpc[r] = "new" /\ ser = "open"
       /\ send_commands(CallerOf(r), Len(InitCommands), TRUE)
    \/ EnsureEnd(r)
    \/ /\ mpc[r] = "move"
       /\ send_commands(CallerOf(r), Len(MacroCmds(0, margs[r].wait)), TRUE)
    \/ SerialAcquire(CallerOf(r))
    \/ _write_line(CallerOf(r))
    \/ WriteRaises(CallerOf(r))
    \/ CheckTime(CallerOf(r))
    \/ ReadLine(CallerOf(r))
    \/ ReadNothing(CallerOf(r))
    \/ AfterMove(r)
    \/ /\ mpc[r] = "controls" /\ rop[r] = None
       /\ set_controls(r, FALSE)
    \/ AfterControls(r)
    \/ Settle(r)
    \/ /\ mpc[r] = "capture" /\ rop[r] # "capture_jpeg_bytes"
       /\ CallCapture(r, "capture_jpeg_bytes")
    \/ Acquire(r)
    \/ \E ok \in BOOLEAN : DeviceSetControls(r, ok)
    \/ \E ok \in BOOLEAN : StopRecording(r, ok)
    \/ \E ok \in BOOLEAN : SwitchStill(r, ok)
    \/ Capture(r, TRUE)
    \/ \E ok \in BOOLEAN : SwitchPreview(r, ok)
    \/ \E ok \in BOOLEAN : StartRecording(r, ok)
    \/ AfterCapture(r)

\* Two such request threads, the clock and the controller.
NextLocks ==
    \/ \E r \in Requests : MacroStep(r)
    \/ Tick
    \/ ControllerOk(<<"ok">>)

SpecLocks == Init /\ [][NextLocks]_vars

\* Time passes, and a request thread that can take a step takes one (device
\* and transport calls return); nothing is assumed about the controller.
FairLocks ==
    /\ SpecLocks
    /\ WF_vars(Tick)
    /\ \A r \in Requests : WF_vars(MacroStep(r))

\* One triple_snap request and one single-camera capture request.
NextSnap ==
    \/ SnapBegin
    \/ SnapStart
    \/ \E c \in Cams : ThreadAcquire(c)
    \/ \E c \in Cams, ok \in BOOLEAN : ThreadCapture(c, ok)
    \/ \E c \in Cams, ok \in BOOLEAN : ThreadControls(c, ok)
    \/ \E c \in Cams : ThreadStore(c)
    \/ SnapJoin
    \/ SnapCollect
    \/ \E c \in Cams : OtherCapture(c)
    \/ OtherAcquire
    \/ OtherCaptureEnd

SpecSnap == Init /\ [][NextSnap]_vars

\* Threads calling CameraManager.stop, any number of times.
NextStop ==
    \/ \E u \in Stoppers : ManagerStop(u)
    \/ \E u \in Stoppers : StopAcquire(u)
    \/ \E u \in Stoppers, ok \in BOOLEAN : StopEncoder(u, ok)
    \/ \E u \in Stoppers, ok \in BOOLEAN : StopDevice(u, ok)

SpecStop == Init /\ [][NextStop]_vars

\* Captures to a file on one session, by two request threads, and the clock.
NextFiles ==
    \/ ClockTick
    \/ ClockSetBack
    \/ \E r \in Requests : ReadClock(r)
    \/ \E r \in Requests : FileAcquire(r)
    \/ \E r \in Requests, ok \in BOOLEAN : FileCapture(r, ok)

SpecFiles == Init /\ [][NextFiles]_vars

\* One call of crop_from_center on any arguments.
NextCrop == crop_from_center

SpecCrop == InitCrop /\ [][NextCrop]_vars

\* One call of printer_move on any request.
NextMove == printer_move

SpecMove == InitMove /\ [][NextMove]_vars

\* One call of set_controls on any argument.
NextControls == ApplyControls

SpecControls == InitControls /\ [][NextControls]_vars

\* Time passes, and a caller that can take its next step takes it.
FairSerial ==
    /\ SpecSerial
    /\ WF_vars(Tick)
    /\ \A t \in Callers :
        /\ WF_vars(CheckTime(t))
        /\ WF_vars(ReadLine(t))
        /\ WF_vars(ReadNothing(t))

\* Time passes, and a caller of the link that can take its next step takes
\* it: a thread waiting for the lock gets it when it stays free, a write
\* returns or raises, a readline returns.
FairBlocked ==
    /\ SpecBlocked
    /\ WF_vars(Tick)
    /\ \A t \in Callers :
        /\ WF_vars(SerialAcquire(t))
        /\ WF_vars(_write_line(t))
        /\ WF_vars(CheckTime(t))
        /\ WF_vars(ReadLine(t))
        /\ WF_vars(ReadNothing(t))

\* Fair scheduling of the consumers: a thread that can run does run, and a
\* thread that keeps finding the condition's lock free gets it.
FairStream ==
    /\ SpecStream
    /\ \A c \in Consumers :
        /\ WF_vars(wait(c))
        /\ WF_vars(Read(c))
        /\ SF_vars(Enter(c))
        /\ SF_vars(Reacquire(c))

\* ================================================================ claims

\* The positions of a request thread inside `with self.lock:`.
InLock == {"ctl", "stop", "still", "cap", "tmp", "tmpcap", "unlink", "prev", "start"}

\* r's call of method o ends in this step (it returns or raises).
Ends(r, o) == rop[r] = o /\ rpc[r] \in InLock /\ rpc'[r] = "idle"

\* C1: whenever a call of capture_jpeg_bytes ends, by return or by exception,
\* the device is in the preview profile and the encoder is recording.
C1_CaptureStillLeavesStreaming ==
    [][\A r \in Requests :
          Ends(r, "capture_jpeg_bytes") => (recording' /\ config' = "preview")]_vars

\* C2: whenever a call of capture_file that got as far as its capture step
\* ends, by return or by exception, the restore steps have run: the device is
\* in the preview profile and the encoder is recording.
C2_CaptureFileRestores ==
    [][\A r \in Requests :
          (Ends(r, "capture_file") /\ rpc[r] \in {"cap", "prev", "start"})
              => (recording' /\ config' = "preview")]_vars

\* C3: while the session lock is free the encoder is recording in the
\* preview profile (the session is never idle), and no frame is written to
\* the StreamingOutput while the device is in the still profile.
C3_ExactlyOneMode ==
    /\ [](lock = None => (recording /\ config = "preview"))
    /\ [][frame' # frame => config = "preview"]_vars

\* C4: the frame a consumer reads after wait() is not None and was written
\* after that consumer's call began.
C4_AwaitNextIsFresh ==
    \A c \in Consumers : cpc[c] = "got" => (got[c] # 0 /\ ~gotStale[c])

\* C4 witness: both consumers have returned from a call, with different
\* frames (so frames written before a call began exist).
C4_Witness ==
    /\ cpc["c1"] = "got" /\ cpc["c2"] = "got"
    /\ got["c1"] # 0 /\ got["c2"] # 0 /\ got["c1"] # got["c2"]

\* The frame written k writes after frame f.
FrameAfter(f, k) == ((f - 1 + k) % NFrames) + 1

\* C5 as claimed: every consumer returns the frame of the write that woke it.
C5_SameFrameAsWaker ==
    \A c \in Consumers : cpc[c] = "got" => got[c] = wokenBy[c]

\* C5 as amended: a write wakes every consumer waiting at that moment, and a
\* woken consumer returns the frame in the slot when it has the condition's
\* lock again: the frame of the write that woke it if no write came in
\* between, and the frame of the latest write otherwise.
C5_BroadcastLatest ==
    /\ [](\A c \in Consumers :
            (cpc[c] = "got" /\ gotLag[c] < MaxLag)
                => got[c] = FrameAfter(wokenBy[c], gotLag[c]))
    /\ [][frame' # frame =>
            \A c \in Consumers : cpc[c] = "waiting" => cpc'[c] = "notified"]_vars

\* C5 witness: both consumers were woken by the same write, and one of them
\* read after the producer had written again.
C5_Witness ==
    /\ cpc["c1"] = "got" /\ cpc["c2"] = "got"
    /\ wokenBy["c1"] = wokenBy["c2"] /\ wokenBy["c1"] # 0
    /\ gotLag["c1"] = 0 /\ gotLag["c2"] = 1

\* C6: if the producer writes infinitely often, every consumer that has begun
\* a call eventually returns from it.
C6_NoConsumerBlockedForever ==
    []<><<write>>_vars =>
        \A c \in Consumers :
            (cpc[c] \in {"enter", "locked", "waiting", "notified", "woken"})
                ~> (cpc[c] = "got")

\* C6 witness: a consumer returned although a write took place between its
\* wake-up and its read (it was slow to take the lock again).
C6_Witness ==
    \E c \in Consumers : cpc[c] = "got" /\ gotLag[c] = MaxLag

\* C7: at most one request thread is inside the lock-protected region of
\* capture_jpeg_bytes, capture_file or set_controls, and it owns the lock.
C7_MutualExclusion ==
    /\ Cardinality({r \in Requests : rpc[r] \in InLock}) <= 1
    /\ \A r \in Requests : rpc[r] \in InLock => lock = r

\* C7 witness: one thread is capturing while another one waits for the lock
\* to call the device's set_controls.
C7_Witness ==
    \E r, q \in Requests :
        /\ rpc[r] = "cap"
        /\ rpc[q] = "lock" /\ rop[q] = "set_controls"

\* The positions of a caller between the write of a command line and the end
\* of its acknowledgment wait.
InWait == {"check", "readline"}

\* Caller t touches the transport in this step: it writes a line or a
\* readline of its returns.
TransportStep(t) == spc[t] \in {"write", "readline"} /\ spc'[t] # spc[t]

\* The acknowledgment wait of the write at position i of the wire has not
\* ended before position j.
OpenBetween(i, j) ==
    /\ wire[i].ev = "write"
    /\ sbatch[wire[i].by].wait_ok
    /\ ~\E e \in (i + 1)..(j - 1) :
          /\ wire[e].by = wire[i].by /\ wire[e].k = wire[i].k
          /\ wire[e].ev \in {"ok", "timeout"}

\* C8: between the write of a command and the end of its acknowledgment wait
\* no other caller writes to or reads from the transport; a caller's command
\* k+1 is written only after its command k was acknowledged, and a caller's
\* acknowledgments come in submission order.
C8_NoInterleaving ==
    /\ [](\A i, j \in 1..Len(wire) :
            (i < j /\ OpenBetween(i, j)) => wire[j].by = wire[i].by)
    /\ [](\A j \in 1..Len(wire) :
            (wire[j].ev = "write" /\ wire[j].k > 1 /\ sbatch[wire[j].by].wait_ok)
                => \E i \in 1..(j - 1) :
                      wire[i] = [ev |-> "ok", by |-> wire[j].by, k |-> wire[j].k - 1])
    /\ [](\A i, j \in 1..Len(wire) :
            (i < j /\ wire[i].ev = "ok" /\ wire[j].ev = "ok" /\ wire[i].by = wire[j].by)
                => wire[i].k < wire[j].k)
    /\ [][\A t \in Callers :
            TransportStep(t) => \A u \in Callers \ {t} : spc[u] \notin InWait]_vars

\* C8 witness: one caller has had both commands of its batch acknowledged
\* while the other caller, which asked first or later, waits for the lock.
C8_Witness ==
    \E t, u \in Callers :
        /\ t # u
        /\ spc[u] = "lock"
        /\ [ev |-> "ok", by |-> t, k |-> 1] \in {wire[i] : i \in 1..Len(wire)}
        /\ spc[t] \in InWait /\ sidx[t] = 2

\* C9: no caller stays inside an acknowledgment wait forever: every wait
\* ends, by an acknowledgment or by the timeout failure, whatever the
\* controller sends or does not send.
C9_AckWaitTerminates ==
    \A t \in Callers : []<>(spc[t] \notin InWait)

\* C9 witness: one wait timed out on a silent transport, another one after
\* ignoring informational lines.
C9_Witness ==
    \E t, u \in Callers :
        /\ sres[t] = "TimeoutError" /\ ~discarded[t]
        /\ sres[u] = "TimeoutError" /\ discarded[u]

Writes(t, k) == {i \in 1..Len(wire) : wire[i] = [ev |-> "write", by |-> t, k |-> k]}

\* C10: a command whose acknowledgment wait timed out was written exactly
\* once, no later command of its batch was written, and the call ended with
\* the timeout failure.
C10_NoRetryAfterTimeout ==
    \A i \in 1..Len(wire) :
        wire[i].ev = "timeout" =>
            /\ Cardinality(Writes(wire[i].by, wire[i].k)) = 1
            /\ \A k \in 1..MaxBatch : k > wire[i].k => Writes(wire[i].by, k) = {}
            /\ spc[wire[i].by] = "idle"
            /\ sres[wire[i].by] = "TimeoutError"

\* C10 witness: the first command of a batch of two timed out.
C10_Witness ==
    \E t \in Callers :
        /\ sres[t] = "TimeoutError" /\ sbatch[t].n = 2 /\ sidx[t] = 1

\* The positions of the wire at which caller t wrote a command line.
WritesBy(t) == {i \in 1..Len(wire) : wire[i].ev = "write" /\ wire[i].by = t}

\* The controller has acknowledged the last command caller t wrote: it
\* answers the commands it receives in order, and tx holds the unanswered
\* ones, so that command is answered when fewer commands are unanswered than
\* were written after it.
Answered(t) ==
    \/ WritesBy(t) = {}
    \/ LET last == CHOOSE i \in WritesBy(t) : \A j \in WritesBy(t) : j <= i
           later == {j \in (last + 1)..Len(wire) : wire[j].ev = "write"}
       IN  Len(tx) <= Cardinality(later)

\* Request r's move was sent with wait set and its send_commands returned.
MovedWithWait(r) ==
    /\ margs[r].wait
    /\ mpc[r] \in {"controls", "settle", "capture", "done", "error"}

\* C11: when a move-and-capture request with wait set begins its still
\* capture, the controller has acknowledged the request's M400 (the last
\* command of its move), and the capture comes after the move's
\* acknowledgment, the optional set_controls and the settle delay.
C11_CaptureAfterMotionComplete ==
    \A r \in Requests :
        (MovedWithWait(r) /\ rop[r] = "capture_jpeg_bytes")
            => (mpc[r] \in {"capture", "done", "error"} /\ Answered(CallerOf(r)))

\* C12: a request whose move phase failed (the link could not be opened or
\* initialized, a write failed, an acknowledgment timed out) has called
\* neither set_controls nor capture_jpeg_bytes; a request calls a camera
\* method, and the session's profile or encoder changes, only on behalf of a
\* request whose move was acknowledged.
C12_MoveFailureAbortsBeforeCamera ==
    /\ [](\A r \in Requests :
            mpc[r] = "aborted" => (rop[r] = None /\ rpc[r] = "idle" /\ lock # r))
    /\ [][\A r \in Requests :
            rop'[r] # rop[r] => (stateSerial # None /\ sres[CallerOf(r)] = "returned")]_vars
    /\ [][(config' # config \/ recording' # recording) =>
            \E r \in Requests : lock = r /\ sres[CallerOf(r)] = "returned"]_vars

\* C12 witness: one request was aborted by an acknowledgment timeout of its
\* move while the other one, whose move was acknowledged, has the device in
\* the still profile.
C12_Witness ==
    \E r, q \in Requests :
        /\ mpc[r] = "aborted" /\ sres[CallerOf(r)] = "TimeoutError" /\ stateSerial # None
        /\ mpc[q] = "capture" /\ rpc[q] = "cap" /\ config = "still"

\* The initialization sequence as the last events of the wire: each command
\* written by t and acknowledged before the next one.
InitSequence(t) ==
    [i \in 1..(2 * Len(InitCommands)) |->
        [ev |-> IF i % 2 = 1 THEN "write" ELSE "ok", by |-> t, k |-> (i + 1) \div 2]]

\* C13: when _ensure_serial stores a link in STATE.serial, the last events
\* on the transport are the writes of M115, G21 and G90, in that order, each
\* followed by its acknowledgment, all by the thread that holds
\* STATE.serial_lock; while no link is stored only that thread writes.
C13_ReadyOnlyAfterInit ==
    /\ [][\A r \in Requests :
            (stateSerial = None /\ stateSerial' # None /\ serial_lock = r) =>
                /\ Len(wire) >= 2 * Len(InitCommands)
                /\ SubSeq(wire, Len(wire) - 2 * Len(InitCommands) + 1, Len(wire))
                       = InitSequence(CallerOf(r))]_vars
    /\ [][(stateSerial = None /\ wire' # wire) =>
            \E r \in Requests :
                /\ serial_lock = r /\ mpc[r] = "new"
                /\ wire'[Len(wire')].by = CallerOf(r)]_vars
    /\ [](stateSerial # None => ser = "open")

\* C13 witness: a first initialization timed out, the next request's
\* initialization was acknowledged and its link is stored.
C13_Witness ==
    \E r, q \in Requests :
        /\ mpc[r] = "aborted" /\ sres[CallerOf(r)] = "TimeoutError"
        /\ stateSerial # None /\ mpc[q] = "move" /\ sres[CallerOf(q)] = "none"
        /\ spc[CallerOf(q)] = "idle"

C17_CaptureErrorAfterRestore ==
    [][\A r \in Requests :
          (Ends(r, "capture_jpeg_bytes") /\ exc[r])
              => (outcome'[r] = "raised" /\ rpc[r] = "start")]_vars

\* C18: for each enum-valued control, a string that is not in the control's
\* name table is left out of the mapping given to picam2.set_controls.
C18_UnknownEnumDropped ==
    ctlpc # "input" =>
        \A k \in EnumKeys :
            (IsStr(ctrl[k]) /\ StripLower(ctrl[k].str) \notin Names(k))
                => DeviceKey(k) \notin DOMAIN m

\* The cameras with an entry in the response of triple_snap.
InResponse == {results[i] : i \in 1..Len(results)}

\* C14: when triple_snap has returned, the capture of every camera that did
\* not fail is in the response, and every camera whose capture failed is in
\* the response too, with its failure indicator.
C14_PartialFailureReported ==
    snappc = "returned" =>
        /\ \A c \in Cams : thr[c] = "ok" => c \in InResponse
        /\ \A c \in Cams : thr[c] = "dead" => c \in InResponse

\* C15: the handler reads `captured` only after every capture thread has
\* ended, and the response then has exactly one entry for every camera
\* whose capture succeeded, and no other entry.
C15_JoinBeforeResults ==
    /\ snappc \in {"collect", "returned"} => \A c \in Cams : thr[c] \in {"ok", "dead"}
    /\ snappc = "returned" =>
          /\ InResponse = {c \in Cams : thr[c] = "ok"}
          /\ Len(results) = Cardinality(InResponse)

\* C15 witness: the request returned two entries, the third capture having
\* failed, and the last camera's capture was stored before the first one's.
C15_Witness ==
    /\ snappc = "returned"
    /\ Len(results) = 2
    /\ \E c \in Cams : thr[c] = "dead"
    /\ results[1] = CamIds[Len(CamIds)]

\* The session is in the stopped state.
Stopped(c) == ~vrec[c] /\ ~vstarted[c]

\* C19: a call of CameraManager.stop ends only after it has called
\* stop_recording and stop on the device of every session, whichever of
\* these calls raised.
C19_StopAttemptsEverySession ==
    /\ [][\A u \in Stoppers :
            (stpc[u] \in {"lock", "rec", "dev"} /\ stpc'[u] \notin {"lock", "rec", "dev"})
                => tried'[u] = Cams \X {"stop_recording", "stop"}]_vars
    /\ [](\A u \in Stoppers : stpc[u] # "raised")

\* C19 witness: a call of CameraManager.stop has returned although the
\* first session's stop_recording and stop both failed (the session is still
\* running) and the last session is stopped.
C19_Witness ==
    \E u \in Stoppers :
        /\ stpc[u] = "returned"
        /\ vrec[CamIds[1]] /\ vstarted[CamIds[1]]
        /\ Stopped(CamIds[Len(CamIds)])
        /\ \A v \in Stoppers \ {u} : stpc[v] = "idle"

\* C20 as claimed: once CameraController.stop has returned for a session,
\* after any number of calls, the session is stopped.
C20_StoppedAfterStop ==
    \A c \in Cams : stopCalls[c] # "none" => Stopped(c)

\* C20 as amended: CameraController.stop never raises, in any interleaving
\* of calls; no call restarts the encoder or the device, so a stopped
\* session stays stopped under further calls; and the session is stopped
\* once a call has returned whose stop_recording and stop both succeeded.
C20_StopIdempotent ==
    /\ [](\A u \in Stoppers : stpc[u] # "raised")
    /\ [](\A c \in Cams : stopCalls[c] = "clean" => Stopped(c))
    /\ [][\A c \in Cams :
            /\ vrec'[c] => vrec[c]
            /\ vstarted'[c] => vstarted[c]
            /\ Stopped(c) => Stopped(c)']_vars

\* C20 witness: a second call works on a session that a first call stopped,
\* and its stop_recording has raised.
C20_Witness ==
    \E u \in Stoppers :
        /\ stpc[u] = "dev" /\ ~clean[u]
        /\ stopCalls[StopCam(u)] = "clean" /\ Stopped(StopCam(u))

\* The writes among the first j events of the wire, and the acknowledgments
\* consumed among them.
WritesUpTo(j) == {i \in 1..j : wire[i].ev = "write"}
OksUpTo(j) == {i \in 1..j : wire[i].ev = "ok"}

\* C21: every acknowledgment that ends a command's wait answers that same
\* command. The controller answers the commands in the order it received
\* them and the input buffer is first in, first out, so the n-th line taken
\* as an acknowledgment answers the n-th command written: it answers the
\* command whose wait it ends only when that command is the n-th write.
C21_AckBelongsToCommand ==
    \A j \in 1..Len(wire) :
        wire[j].ev = "ok" =>
            Cardinality(WritesUpTo(j)) = Cardinality(OksUpTo(j))

\* The transports that are open: the one of the SerialManager in use (stored
\* in STATE.serial or being set up by _ensure_serial) and the leaked ones.
OpenTransports == leaked + (IF ser = "open" THEN 1 ELSE 0)

\* C22: at most one transport to the motion controller is open at any time,
\* and a new transport is opened only when every transport opened before it
\* has been closed.
C22_SingleTransport ==
    /\ [](OpenTransports <= 1)
    /\ [][(ser = None /\ ser' = "open") => leaked = 0]_vars

\* Caller t's send_commands ends in this step with a fatal I/O error of the
\* transport (write, flush or readline raised).
FatalError(t) == spc[t] \in {"write", "readline"} /\ sres'[t] = "SerialException"

\* C23: when send_commands ends with a fatal I/O error the link is
\* disconnected (is_connected() is false), and _ensure_serial does not hand
\* out the stored link again after such an error on it.
C23_FatalErrorDisconnects ==
    /\ [][\A t \in Callers : FatalError(t) => ser' # "open"]_vars
    /\ [][\A r \in Requests :
            (mpc[r] = "locked" /\ mpc'[r] = "move")
                => \A t \in Callers : sres[t] # "SerialException"]_vars

\* C24: a command attempted on a link with no transport ends the call with
\* the not-connected error and writes nothing; when disconnect() returns the
\* link has no transport (is_connected() is false); and a disconnect() that
\* finds no transport changes nothing.
C24_NotConnected ==
    /\ [][\A t \in Callers :
            (spc[t] = "write" /\ ser = None /\ spc'[t] # "write")
                => (sres'[t] = "RuntimeError" /\ wire' = wire /\ tx' = tx)]_vars
    /\ [][dcalls' # dcalls => ser' = None]_vars
    /\ [][(dcalls' # dcalls /\ ser = None) => UNCHANGED <<serVars, leaked>>]_vars
    /\ [](\A t \in Callers : sres[t] = "RuntimeError" => Writes(t, sidx[t]) = {})

\* C24 witness: the link was connected, used by one caller and disconnected,
\* disconnect was called again on the link without transport, and the other
\* caller's command failed as not connected with nothing written.
C24_Witness ==
    /\ dcalls = <<"open", None>>
    /\ ser = None
    /\ \E t, u \in Callers :
          /\ t # u
          /\ sres[t] = "returned" /\ WritesBy(t) # {}
          /\ sres[u] = "RuntimeError" /\ WritesBy(u) = {}

\* The positions of cmds holding an XY move, and those holding a Z move.
XYMoves == {i \in 1..Len(cmds) : cmds[i].op = "G0" /\ cmds[i].z = Absent}
ZMoves == {i \in 1..Len(cmds) : cmds[i].op = "G0" /\ cmds[i].z # Absent}

C26_DistinctPaths ==
    \A i, j \in 1..Len(written) : i # j => written[i] # written[j]

\* C27: crop_from_center never fails; the clamped rectangle satisfies
\* 0 <= left <= right <= w and 0 <= top <= bottom <= h; the result is the
\* original w x h image when the rectangle is degenerate and has the size
\* (right - left) x (bottom - top) otherwise, never more than w x h.
C27_CropNeverFails ==
    cropped.status # "none" =>
        /\ cropped.status = "returned"
        /\ 0 <= cropped.left /\ cropped.left <= cropped.right /\ cropped.right <= crop.w
        /\ 0 <= cropped.top /\ cropped.top <= cropped.bottom /\ cropped.bottom <= crop.h
        /\ cropped.size =
             IF cropped.right <= cropped.left \/ cropped.bottom <= cropped.top
             THEN <<crop.w, crop.h>>
             ELSE <<cropped.right - cropped.left, cropped.bottom - cropped.top>>
        /\ cropped.size[1] <= crop.w /\ cropped.size[2] <= crop.h

\* A request thread is inside set_controls, holding the session lock, while
\* the encoder is recording.
InSetControls == \E r \in Requests : rpc[r] = "ctl" /\ lock = r /\ recording

\* C28: no step of a consumer or of the encoder's write takes, needs or
\* changes the session lock; even if a thread stays inside set_controls with
\* the lock for ever, frames go on being published and a consumer waiting in
\* awaitNext gets its frame; and every write wakes the consumer waiting at
\* that moment, so a consumer that waited across a still capture is woken by
\* the first frame written after start_recording.
C28_ConsumersNeverTakeSessionLock ==
    /\ [][(cpc' # cpc \/ frame' # frame \/ condition' # condition)
              => (lock' = lock /\ rpc' = rpc)]_vars
    /\ [][frame' # frame =>
            (cpc[Viewer] = "waiting" => cpc'[Viewer] = "notified")]_vars
    /\ (<>[]InSetControls) =>
          /\ []<><<write>>_vars
          /\ (cpc[Viewer] = "waiting") ~> (cpc[Viewer] = "got")

\* C28 witness: the consumer is blocked in wait() while a request thread,
\* having captured, is about to resume the encoder, and the other request
\* thread waits for the lock to call set_controls.
C28_Witness ==
    /\ cpc[Viewer] = "waiting"
    /\ ~recording
    /\ rpc[Capturer] = "start" /\ lock = Capturer
    /\ rpc[Setter] = "lock" /\ rop[Setter] = "set_controls"

\* Request thread a waits for a lock that request thread b holds:
\* STATE.serial_lock in _ensure_serial, SerialManager._lock in send_commands
\* or in is_connected, the session's lock in a camera method.
WaitsFor(a, b) ==
    \/ mpc[a] = "ensure" /\ serial_lock = b
    \/ spc[CallerOf(a)] = "lock" /\ slock = CallerOf(b)
    \/ mpc[a] = "locked" /\ stateSerial # None /\ slock = CallerOf(b)
    \/ rpc[a] = "lock" /\ lock = b

\* C29: no thread waits for a lock it holds itself, no two threads wait for
\* each other, and every thread waiting for a lock gets it: STATE.serial_lock,
\* the SerialManager's lock (in send_commands and in is_connected) and the
\* session's lock.
C29_NoDeadlock ==
    /\ [](\A a, b \in Requests : ~(WaitsFor(a, b) /\ WaitsFor(b, a)))
    /\ \A r \in Requests :
          /\ (mpc[r] = "ensure") ~> (serial_lock = r)
          /\ (spc[CallerOf(r)] = "lock") ~> (slock = CallerOf(r))
          /\ (mpc[r] = "locked") ~> (mpc[r] # "locked")
          /\ (rpc[r] = "lock") ~> (lock = r)

\* C29 witness: one thread, holding STATE.serial_lock, waits in is_connected
\* for the SerialManager's lock, which the other thread has held for four
\* seconds of an acknowledgment wait.
C29_Witness ==
    \E r, q \in Requests :
        /\ mpc[r] = "locked" /\ serial_lock = r /\ stateSerial # None
        /\ slock = CallerOf(q) /\ spc[CallerOf(q)] \in InWait
        /\ elapsed = AckTimeout - 1

\* The number of G0 lines in the batch request q's move phase is sending.
MovesOf(q) == sbatch[CallerOf(q)].n - 1 - (IF margs[q].wait THEN 1 ELSE 0)

\* Request q writes a move command (a G0 line of its cmds) in this step.
MoveWritten(q) ==
    /\ mpc[q] = "move"
    /\ Len(wire') = Len(wire) + 1
    /\ wire'[Len(wire')].ev = "write"
    /\ wire'[Len(wire')].by = CallerOf(q)
    /\ wire'[Len(wire')].k \in 2..(1 + MovesOf(q))

\* Request r's move has been acknowledged and its capture has not ended.
BeforeCaptureEnd(r) == mpc[r] \in {"controls", "settle", "capture"}

\* C30: no move command of another request is written between a request's
\* acknowledged move and the end of its capture.
C30_CaptureAtOwnTarget ==
    [][\A q, r \in Requests :
          (q # r /\ MoveWritten(q)) => ~BeforeCaptureEnd(r)]_vars

\* Caller u's line is written to the transport in this step.
Wrote(u) ==
    /\ Len(wire') = Len(wire) + 1
    /\ wire'[Len(wire')] = [ev |-> "write", by |-> u, k |-> sidx[u]]

\* sm.send_commands(["M112"], wait_ok=False)
IsStop(u) == sbatch[u] = [n |-> 1, wait_ok |-> FALSE]

\* C31: a caller inside send_commands holds the link's lock from before the
\* first write of its batch until the batch has ended, by its last
\* acknowledgment or by a failure; between two writes of a batch no line of
\* another batch is written; and no caller's line, an emergency stop
\* included, is written while another caller's batch has not ended.
C31_BatchAtomic ==
    /\ [](\A t \in Callers : InBatch(t) => slock = t)
    /\ [](\A i, j \in 1..Len(wire) :
            (/\ i < j
             /\ wire[i].ev = "write" /\ wire[j].ev = "write"
             /\ wire[i].by = wire[j].by)
                => \A e \in i..j : wire[e].by = wire[i].by)
    /\ [][\A t, u \in Callers : (t # u /\ InBatch(t)) => ~Wrote(u)]_vars

\* C31 witness: the emergency stop has been written after the other caller's
\* batch of two lines, whose second line was never acknowledged, failed with
\* the timeout; both lines of the batch precede the stop on the transport.
C31_Witness ==
    \E t, u \in Callers :
        /\ t # u
        /\ IsStop(u) /\ sres[u] = "returned"
        /\ sbatch[t].n = 2 /\ sres[t] = "TimeoutError" /\ sidx[t] = 2
        /\ \E i, j, e \in 1..Len(wire) :
              /\ i < j /\ j < e
              /\ wire[i] = [ev |-> "write", by |-> t, k |-> 2]
              /\ wire[j] = [ev |-> "timeout", by |-> t, k |-> 2]
              /\ wire[e] = [ev |-> "write", by |-> u, k |-> 1]

\* `with self._lock:` of disconnect and is_connected can be entered.
LinkLockFree == slock = None

\* The first line of caller u's batch has been written.
FirstWritten(u) ==
    \E i \in 1..Len(wire) : wire[i] = [ev |-> "write", by |-> u, k |-> 1]

\* C32 as stated: after a failed send_commands a second caller waiting for
\* the lock eventually has its command written.
C32_BlockedCallerWrites ==
    \A t, u \in Callers :
        (t # u /\ Failed(t) /\ spc[u] = "lock") ~> FirstWritten(u)

\* C32: a call of send_commands that has ended, failed calls included, does
\* not hold the link's lock; a second caller waiting for the lock when a
\* batch has failed eventually acquires it and attempts its first write,
\* which is written unless it fails itself with the not-connected or the
\* transport error; and the lock is free again and again for disconnect and
\* is_connected.
C32_FailureReleasesLock ==
    /\ [](\A t \in Callers : spc[t] = "idle" => slock # t)
    /\ \A t, u \in Callers :
          (t # u /\ Failed(t) /\ spc[u] = "lock") ~>
              (FirstWritten(u) \/ sres[u] \in {"RuntimeError", "SerialException"})
    /\ \A t \in Callers : Failed(t) ~> LinkLockFree
    /\ []<>LinkLockFree

\* C32 witness: a batch has failed with the timeout, the other caller's first
\* line was written after that failure, and a disconnect has found the
\* transport and closed it.
C32_Witness ==
    \E t, u \in Callers :
        /\ t # u
        /\ sres[t] = "TimeoutError"
        /\ dcalls # <<>> /\ dcalls[1] # None
        /\ \E i, j \in 1..Len(wire) :
              /\ i < j
              /\ wire[i] = [ev |-> "timeout", by |-> t, k |-> sidx[t]]
              /\ wire[j] = [ev |-> "write", by |-> u, k |-> 1]

====
